---- MODULE Spec2Model ----
(***************************************************************************)
(* Toggle-Untoggle: the mask registry of one image viewer (toggle.py), the *)
(* export reconciliation of the application (main.py) and the producer     *)
(* thread that fills the table of region properties (main.py,              *)
(* image_analysis_pipeline.py).                                            *)
(*                                                                         *)
(* Python strings are sequences of one-character strings, so that the      *)
(* several places that build dictionary keys by concatenation are compared *)
(* as the program compares them.  Dictionaries are functions whose domain  *)
(* is the set of keys present.  A binary mask is the set of blobs it       *)
(* covers; the segmented region with label i covers the blob i.            *)
(***************************************************************************)
EXTENDS Integers, Sequences, FiniteSets, TLC

\* ---------------------------------------------------------------- bounds
NumMasks == 4       \* most regions the segmentation yields for the image
MaxEdits == 3       \* most curation edits (clicks, strokes, drawings) in a session
MaxExports == 1     \* most presses of Save in a session
NumImages == 2      \* most marker images in the folder of a run
MaxRuns == 1        \* most accepted presses of Process in a session

\* ------------------------------------------------------- Python helpers
EmptyDict == [k \in {} |-> 0]

Put(d, k, v) == [j \in (DOMAIN d) \cup {k} |-> IF j = k THEN v ELSE d[j]]

Pop(d, k) == [j \in (DOMAIN d) \ {k} |-> d[j]]

Digits == <<"0", "1", "2", "3", "4", "5", "6", "7", "8", "9">>

RECURSIVE StrInt(_)
StrInt(n) == IF n < 10 THEN <<Digits[n + 1]>>
             ELSE StrInt(n \div 10) \o <<Digits[(n % 10) + 1]>>

CharCode(c) == CHOOSE i \in 1..10 : Digits[i] = c

RECURSIVE StrLess(_, _)
StrLess(a, b) ==
    IF a = <<>> THEN b # <<>>
    ELSE IF b = <<>> THEN FALSE
    ELSE IF Head(a) = Head(b) THEN StrLess(Tail(a), Tail(b))
    ELSE CharCode(Head(a)) < CharCode(Head(b))

RECURSIVE ParseInt(_)
ParseInt(s) == IF Len(s) = 1 THEN CharCode(s[1]) - 1
               ELSE 10 * ParseInt(SubSeq(s, 1, Len(s) - 1)) + CharCode(s[Len(s)]) - 1

\* sorted(strs): the strings of a set in ascending lexicographic order
RECURSIVE SortedStrs(_)
SortedStrs(S) ==
    IF S = {} THEN <<>>
    ELSE LET m == CHOOSE a \in S : \A b \in S \ {a} : StrLess(a, b)
         IN  <<m>> \o SortedStrs(S \ {m})

\* sep.join(parts)
RECURSIVE Join(_, _)
Join(parts, sep) ==
    IF parts = <<>> THEN <<>>
    ELSE IF Len(parts) = 1 THEN parts[1]
    ELSE parts[1] \o sep \o Join(Tail(parts), sep)

HasUnderscore(s) == \E i \in 1..Len(s) : s[i] = "_"

FirstUnderscore(s) == CHOOSE i \in 1..Len(s) : s[i] = "_" /\ \A j \in 1..(i - 1) : s[j] # "_"

\* s.split("_")[0]
SplitFirst(s) == IF HasUnderscore(s) THEN SubSeq(s, 1, FirstUnderscore(s) - 1) ELSE s

\* s.split("_", 1)[1], defined only when s holds an underscore
SplitRest(s) == SubSeq(s, FirstUnderscore(s) + 1, Len(s))

\* a label is an int (segmented regions) or a str (merged and drawn rows)
LabelInt(n) == [ty |-> "int", s |-> StrInt(n)]

LabelStr(s) == [ty |-> "str", s |-> s]

\* the image files a folder can hold, with and without an underscore in the
\* name; a folder lists a run of them
NamePool == <<<<"X">>, <<"a", "_", "b">>, <<"c">>>>

\* ------------------------------------------------------ toggle.py: keys
active_opacity == 10      \* tenths

inactive_opacity == 2     \* tenths

get_mask_id(name, label) == name \o <<"_">> \o StrInt(label)

\* what skimage measures, in pixels, for the segmented region with this
\* label: its area and its perimeter
SegArea(label) == 100 + 7 * (label - 1) * (label - 1)

SegPerimeter(label) == 40 + 3 * (label - 1) * (label - 1)

\* a blob is one connected component of pixels: <<kind, number, area, perimeter>>
SegBlob(label) == <<"seg", label, SegArea(label), SegPerimeter(label)>>

\* the binary mask of the segmented region with this label
MaskOf(label) == {SegBlob(label)}

\* get_item_by_id: the label of the mask item with this id; 0 stands for None
get_item_by_id(V, mid) ==
    IF \E l \in V.labels : get_mask_id(V.name, l) = mid
    THEN CHOOSE l \in V.labels : get_mask_id(V.name, l) = mid
    ELSE 0

ItemLabelStrs(V, mask_ids) ==
    {StrInt(get_item_by_id(V, mid)) : mid \in {m \in mask_ids : get_item_by_id(V, m) # 0}}

generate_merged_key(V, name, mask_ids) ==
    name \o <<"(">> \o Join(SortedStrs(ItemLabelStrs(V, mask_ids)), <<",">>) \o <<")">>

\* the key create_merged_mask registers the composite under
create_merged_key(V, items) ==
    V.name \o <<"_", "(">> \o Join(SortedStrs({StrInt(l) : l \in items}), <<"_">>) \o <<")">>

get_merged_key_from_group(V, group) ==
    LET name == SplitFirst(CHOOSE mid \in group.mask_ids : TRUE)
    IN  name \o <<"_", "(">> \o Join(SortedStrs(ItemLabelStrs(V, group.mask_ids)), <<",">>) \o <<")">>

\* ------------------------------------------------- toggle.py: the viewer
SetField(e, f, v) == [x \in (DOMAIN e) \cup {f} |-> IF x = f THEN v ELSE e[x]]

\* ImageViewer.__init__ and set_togglable_masks for the masks of one image,
\* registered with a controller whose shared mode is ctrl_mode
NewViewer(name, n, ctrl_mode) ==
    [name |-> name,
     labels |-> 1..n,
     opacity |-> [l \in 1..n |-> active_opacity],
     is_inactive |-> [l \in 1..n |-> FALSE],
     callback_dict |->
        [k \in {get_mask_id(name, l) : l \in 1..n} |->
            LET l == CHOOSE l \in 1..n : get_mask_id(name, l) = k
            IN  [name |-> name, label |-> LabelInt(l), is_active |-> TRUE, merged |-> FALSE]],
     new_mask_dict |->
        [k \in {get_mask_id(name, l) : l \in 1..n} |->
            LET l == CHOOSE l \in 1..n : get_mask_id(name, l) = k
            IN  [mask |-> MaskOf(l), source |-> "individual", image_name |-> name,
                 label_group |-> [list |-> FALSE, items |-> <<LabelInt(l)>>]]],
     groups |-> EmptyDict,
     connected_groups |-> <<>>,
     mask_id_to_group |-> EmptyDict,
     pre_merge_callback_state |-> EmptyDict,
     mode |-> ctrl_mode,
     connection_mode |-> (ctrl_mode = "connect"),
     mode_check_enabled |-> TRUE,
     canvas |-> <<>>]

\* set_mode without the branch for None
set_mode_valid_only(V, mode) ==
    IF mode \notin {"toggle", "connect", "draw", "erase"} THEN V
    ELSE [V EXCEPT !.mode = mode, !.connection_mode = (mode = "connect")]

\* ImageViewer.set_mode; "none" stands for None
set_mode(V, mode) ==
    IF mode = "none" THEN [V EXCEPT !.mode = "none", !.connection_mode = FALSE]
    ELSE IF mode \notin {"toggle", "connect", "draw", "erase"} THEN V
    ELSE [V EXCEPT !.mode = mode, !.connection_mode = (mode = "connect")]

\* group objects live in V.groups under an object identity; an identity no
\* list or index refers to any more is collected
LiveGroups(V) ==
    {V.connected_groups[i] : i \in 1..Len(V.connected_groups)}
        \cup {V.mask_id_to_group[m] : m \in DOMAIN V.mask_id_to_group}

Collect(V) == [V EXCEPT !.groups = [g \in LiveGroups(V) |-> V.groups[g]]]

FreshGroup(V) ==
    CHOOSE g \in 1..(Cardinality(DOMAIN V.groups) + 1) :
        g \notin DOMAIN V.groups /\ \A h \in 1..(g - 1) : h \in DOMAIN V.groups

\* Python compares the dicts of two groups by value, "mask_ids" first
SameGroup(V, g, h) == g = h \/ V.groups[g].mask_ids = V.groups[h].mask_ids

InList(V, g) == \E i \in 1..Len(V.connected_groups) : SameGroup(V, V.connected_groups[i], g)

\* list.remove(group): drops the first element equal to the group
ListRemove(V, g) ==
    LET L == V.connected_groups
        i == CHOOSE i \in 1..Len(L) :
                /\ SameGroup(V, L[i], g)
                /\ \A j \in 1..(i - 1) : ~SameGroup(V, L[j], g)
    IN  SubSeq(L, 1, i - 1) \o SubSeq(L, i + 1, Len(L))

\* remove_group with the removal from the list left out
remove_group_forgotten(V, g) == V

\* ImageViewer.remove_group
remove_group(V, g) ==
    IF InList(V, g) THEN [V EXCEPT !.connected_groups = ListRemove(V, g)] ELSE V

\* ImageViewer.remove_merged_mask_entries
remove_merged_mask_entries(V, merged_key) ==
    [V EXCEPT !.callback_dict = Pop(@, merged_key), !.new_mask_dict = Pop(@, merged_key)]

\* a click callback that records nothing
mask_click_callback_silent(V, name, label, is_active) == V

\* ImageViewer.mask_click_callback
mask_click_callback(V, name, label, is_active) ==
    [V EXCEPT !.callback_dict =
        Put(@, get_mask_id(name, label),
            [name |-> name, label |-> LabelInt(label), is_active |-> is_active])]

\* toggle_individual that can only switch a region off
toggle_individual_off_only(V, l) ==
    [v |-> mask_click_callback([V EXCEPT !.opacity[l] = inactive_opacity,
                                         !.is_inactive[l] = TRUE], V.name, l, FALSE),
     raised |-> FALSE]

\* ClickableMask.toggle_individual
toggle_individual(V, l) ==
    LET turning_off == V.opacity[l] = active_opacity
        V1 == [V EXCEPT !.opacity[l] = IF turning_off THEN inactive_opacity ELSE active_opacity,
                        !.is_inactive[l] = turning_off]
    IN  [v |-> mask_click_callback(V1, V.name, l, ~turning_off), raised |-> FALSE]

\* toggle_group that switches the clicked member alone
toggle_group_clicked_only(V, l, g) ==
    LET turning_off == V.opacity[l] = active_opacity
        group == V.groups[g]
        merged_key == generate_merged_key(V, V.name, group.mask_ids)
        members == {l}
        cb1 == Put(V.callback_dict, merged_key,
                   [name |-> V.name, label |-> LabelStr(SplitRest(merged_key)),
                    is_active |-> ~turning_off, merged |-> TRUE])
        cb2 == [k \in DOMAIN cb1 |->
                  IF \E m \in members : get_mask_id(V.name, m) = k
                  THEN SetField(cb1[k], "is_active", ~turning_off)
                  ELSE cb1[k]]
    IN  IF ~HasUnderscore(merged_key) THEN [v |-> V, raised |-> TRUE]
        ELSE [v |-> [V EXCEPT
                !.callback_dict = cb2,
                !.opacity = [m \in V.labels |->
                    IF m \in members
                    THEN (IF turning_off THEN inactive_opacity ELSE active_opacity)
                    ELSE V.opacity[m]],
                !.is_inactive = [m \in V.labels |->
                    IF m \in members THEN turning_off ELSE V.is_inactive[m]],
                !.new_mask_dict = IF turning_off THEN Pop(@, merged_key) ELSE @],
              raised |-> FALSE]

\* ClickableMask.toggle_group; the label of the merged entry is
\* merged_key.split('_', 1)[1], which raises IndexError when the key holds
\* no underscore, before anything is written
toggle_group(V, l, g) ==
    LET turning_off == V.opacity[l] = active_opacity
        group == V.groups[g]
        merged_key == generate_merged_key(V, V.name, group.mask_ids)
        members == {get_item_by_id(V, mid) : mid \in group.mask_ids} \ {0}
        cb1 == Put(V.callback_dict, merged_key,
                   [name |-> V.name, label |-> LabelStr(SplitRest(merged_key)),
                    is_active |-> ~turning_off, merged |-> TRUE])
        cb2 == [k \in DOMAIN cb1 |->
                  IF \E m \in members : get_mask_id(V.name, m) = k
                  THEN SetField(cb1[k], "is_active", ~turning_off)
                  ELSE cb1[k]]
    IN  IF ~HasUnderscore(merged_key) THEN [v |-> V, raised |-> TRUE]
        ELSE [v |-> [V EXCEPT
                !.callback_dict = cb2,
                !.opacity = [m \in V.labels |->
                    IF m \in members
                    THEN (IF turning_off THEN inactive_opacity ELSE active_opacity)
                    ELSE V.opacity[m]],
                !.is_inactive = [m \in V.labels |->
                    IF m \in members THEN turning_off ELSE V.is_inactive[m]],
                !.new_mask_dict = IF turning_off THEN Pop(@, merged_key) ELSE @],
              raised |-> FALSE]

\* ClickableMask.handle_toggle_mode
handle_toggle_mode(V, l) ==
    LET mask_id == get_mask_id(V.name, l)
    IN  IF mask_id \in DOMAIN V.mask_id_to_group
        THEN toggle_group(V, l, V.mask_id_to_group[mask_id])
        ELSE toggle_individual(V, l)

\* a mask item that answers a click in every mode
mask_mousePressEvent_any_mode(V, l) == handle_toggle_mode(V, l)

\* ClickableMask.mousePressEvent: a left click on the mask item l
mask_mousePressEvent(V, l) ==
    IF ~V.mode_check_enabled THEN [v |-> V, raised |-> FALSE]
    ELSE IF V.mode # "toggle" \/ V.connection_mode THEN [v |-> V, raised |-> FALSE]
    ELSE handle_toggle_mode(V, l)

\* --------------------------------------------------- toggle.py: strokes
\* get_hit_masks_from_path without the test of is_inactive
get_hit_masks_from_path_all(V, path) ==
    {l \in V.labels : (path \cap MaskOf(l)) # {}}

\* ImageViewer.get_hit_masks_from_path; the path is the set of blobs its
\* points land on once they are scaled to mask coordinates
get_hit_masks_from_path(V, path) ==
    {l \in V.labels : ~V.is_inactive[l] /\ (path \cap MaskOf(l)) # {}}

\* ImageViewer.create_merged_mask: the union of the masks of the hit items,
\* registered in new_mask_dict and callback_dict
MergedMaskOf(items) == UNION {MaskOf(l) : l \in items}

create_merged_mask(V, active_items) ==
    LET mask_key == create_merged_key(V, active_items)
        label_names == SortedStrs({StrInt(l) : l \in active_items})
    IN  [V EXCEPT
            !.new_mask_dict = Put(@, mask_key,
                [mask |-> MergedMaskOf(active_items), source |-> "connect",
                 image_name |-> V.name,
                 label_group |-> [list |-> TRUE,
                                  items |-> [i \in 1..Len(label_names) |-> LabelStr(label_names[i])]]]),
            !.callback_dict = Put(@, mask_key,
                [name |-> V.name, label |-> LabelStr(mask_key),
                 is_active |-> TRUE, merged |-> TRUE])]

\* restore_individual_mask that restores every member as excluded
restore_individual_mask_excluded(V, mid) ==
    LET l == get_item_by_id(V, mid)
        key == get_mask_id(V.name, l)
    IN  IF l = 0 THEN [v |-> V, raised |-> FALSE]
        ELSE [v |-> [V EXCEPT
                !.callback_dict = Put(@, key,
                    [name |-> V.name, label |-> LabelInt(l),
                     is_active |-> FALSE, merged |-> FALSE]),
                !.new_mask_dict = Put(@, key,
                    [mask |-> MaskOf(l), source |-> "disconnect", image_name |-> V.name,
                     label_group |-> [list |-> TRUE, items |-> <<LabelStr(StrInt(l))>>]]),
                !.opacity[l] = active_opacity,
                !.is_inactive[l] = FALSE,
                !.mask_id_to_group = Pop(@, mid)],
              raised |-> FALSE]

\* ImageViewer.restore_individual_mask; a cached snapshot without the
\* "is_active" entry raises KeyError
restore_individual_mask(V, mid) ==
    LET l == get_item_by_id(V, mid)
        key == get_mask_id(V.name, l)
        cached == IF key \in DOMAIN V.pre_merge_callback_state
                  THEN V.pre_merge_callback_state[key] ELSE EmptyDict
        truthy == cached # EmptyDict
    IN  IF l = 0 THEN [v |-> V, raised |-> FALSE]
        ELSE IF truthy /\ "is_active" \notin DOMAIN cached THEN [v |-> V, raised |-> TRUE]
        ELSE [v |-> [V EXCEPT
                !.callback_dict = Put(@, key,
                    [name |-> V.name, label |-> LabelInt(l),
                     is_active |-> IF truthy THEN cached["is_active"] ELSE TRUE,
                     merged |-> FALSE]),
                !.new_mask_dict = Put(@, key,
                    [mask |-> MaskOf(l), source |-> "disconnect", image_name |-> V.name,
                     label_group |-> [list |-> TRUE, items |-> <<LabelStr(StrInt(l))>>]]),
                !.opacity[l] = active_opacity,
                !.is_inactive[l] = FALSE,
                !.mask_id_to_group = Pop(@, mid)],
              raised |-> FALSE]

RECURSIVE RestoreAll(_, _)
RestoreAll(V, mids) ==
    IF mids = {} THEN [v |-> V, raised |-> FALSE]
    ELSE LET mid == CHOOSE m \in mids : TRUE
             r == restore_individual_mask(V, mid)
         IN  IF r.raised THEN r ELSE RestoreAll(r.v, mids \ {mid})

\* ImageViewer.disconnect_group
disconnect_group(V, g) ==
    LET group == V.groups[g]
        merged_key == get_merged_key_from_group(V, group)
        V1 == remove_merged_mask_entries(V, merged_key)
        r == RestoreAll(V1, group.mask_ids)
    IN  IF r.raised THEN r
        ELSE [v |-> remove_group(r.v, g), raised |-> FALSE]

\* check_and_disconnect that never finds a group to disconnect
check_and_disconnect_never(V, hit_masks) == 0

\* check_and_disconnect that asks for the whole member set of the group
check_and_disconnect_exact(V, hit_masks) ==
    LET ids == {get_mask_id(V.name, l) : l \in hit_masks}
        gs == {g \in DOMAIN V.groups : InList(V, g) /\ V.groups[g].mask_ids = ids}
    IN  IF gs # {} THEN CHOOSE g \in gs : TRUE ELSE 0

\* ImageViewer.check_and_disconnect: the group to disconnect, 0 when the
\* stroke is not a disconnect
check_and_disconnect(V, hit_masks) ==
    LET connected_mask_ids ==
            {get_mask_id(V.name, l) : l \in {m \in hit_masks :
                get_mask_id(V.name, m) \in DOMAIN V.mask_id_to_group}}
        group_ids == {V.mask_id_to_group[mid] : mid \in connected_mask_ids}
    IN  IF Cardinality(connected_mask_ids) = Cardinality(hit_masks)
           /\ Cardinality(group_ids) = 1
        THEN CHOOSE g \in group_ids : TRUE
        ELSE 0

\* a flattening that leaves the touched groups in the list
RemoveGroups_keep(V, gs) == [v |-> V, raised |-> FALSE]

RECURSIVE RemoveGroups(_, _)
RemoveGroups(V, gs) ==
    IF gs = {} THEN [v |-> V, raised |-> FALSE]
    ELSE LET g == CHOOSE h \in gs : TRUE
         IN  IF ~InList(V, g) THEN [v |-> V, raised |-> TRUE]
             ELSE RemoveGroups([V EXCEPT !.connected_groups = ListRemove(V, g)], gs \ {g})

\* ImageViewer.merge_and_connect_masks; list.remove raises ValueError for a
\* group the list does not hold
merge_and_connect_masks(V, active_items, mask_ids, merged_mask) ==
    LET unique_groups ==
            {V.mask_id_to_group[mid] : mid \in mask_ids \cap DOMAIN V.mask_id_to_group}
        merged_mask_ids == mask_ids \cup UNION {V.groups[g].mask_ids : g \in unique_groups}
        r == RemoveGroups(V, unique_groups)
        new_group == FreshGroup(V)
        keys == {get_mask_id(V.name, l) : l \in active_items}
        pre == [k \in (DOMAIN V.pre_merge_callback_state) \cup keys |->
                  IF k \in DOMAIN V.pre_merge_callback_state
                  THEN V.pre_merge_callback_state[k]
                  ELSE IF k \in DOMAIN V.callback_dict THEN V.callback_dict[k] ELSE EmptyDict]
        cb == [k \in (DOMAIN V.callback_dict) \cup keys |->
                  IF k \notin keys THEN V.callback_dict[k]
                  ELSE IF k \in DOMAIN V.callback_dict
                  THEN SetField(V.callback_dict[k], "merged", TRUE)
                  ELSE [name |-> V.name,
                        label |-> LabelInt(CHOOSE l \in active_items : get_mask_id(V.name, l) = k),
                        is_active |-> TRUE, merged |-> FALSE]]
    IN  IF r.raised THEN r
        ELSE [v |-> [r.v EXCEPT
                !.groups = Put(@, new_group, [mask_ids |-> merged_mask_ids, mask |-> merged_mask]),
                !.connected_groups = Append(@, new_group),
                !.mask_id_to_group =
                    [m \in (DOMAIN @) \cup merged_mask_ids |->
                        IF m \in merged_mask_ids THEN new_group ELSE @[m]],
                !.pre_merge_callback_state = pre,
                !.callback_dict = cb],
              raised |-> FALSE]

\* handle_mouse_path that goes on with a single hit
handle_mouse_path_single(V, path) ==
    LET hit_masks == get_hit_masks_from_path(V, path)
        V1 == create_merged_mask(V, hit_masks)
        g == check_and_disconnect(V1, hit_masks)
    IN  IF Cardinality(hit_masks) < 1 THEN [v |-> V, raised |-> FALSE]
        ELSE IF g # 0 THEN disconnect_group(V1, g)
        ELSE merge_and_connect_masks(V1, hit_masks, {get_mask_id(V.name, l) : l \in hit_masks},
                                     MergedMaskOf(hit_masks))

\* ImageViewer.handle_mouse_path: the completed stroke
handle_mouse_path(V, path) ==
    LET hit_masks == get_hit_masks_from_path(V, path)
        active_items == {l \in hit_masks : ~V.is_inactive[l]}
        V1 == create_merged_mask(V, active_items)
        merged_mask == MergedMaskOf(active_items)
        mask_ids == {get_mask_id(V.name, l) : l \in active_items}
        g == check_and_disconnect(V1, hit_masks)
    IN  IF Cardinality(active_items) <= 1 THEN [v |-> V, raised |-> FALSE]
        ELSE IF g # 0 THEN disconnect_group(V1, g)
        ELSE merge_and_connect_masks(V1, active_items, mask_ids, merged_mask)

\* ImageViewer.mouseReleaseEvent of the left button at the end of a stroke
viewer_mouseReleaseEvent(V, path) ==
    IF V.mode = "connect" THEN handle_mouse_path(V, path)
    ELSE [v |-> V, raised |-> FALSE]

\* -------------------------------------- image_analysis_pipeline.py: rows
\* a number is a fraction <<numerator, denominator>> with denominator > 0
Frac(n) == <<n, 1>>

FracMul(a, b) == <<a[1] * b[1], a[2] * b[2]>>

FracEq(a, b) == a[1] * b[2] = b[1] * a[2]

FracGt(a, b) == a[1] * b[2] > b[1] * a[2]

RECURSIVE SumOver(_, _)
SumOver(S, i) ==
    IF S = {} THEN 0
    ELSE LET b == CHOOSE x \in S : TRUE IN b[i] + SumOver(S \ {b}, i)

\* pixel_conversion that scales the areas like the lengths
pixel_conversion_linear(big_df, pixel_rate) ==
    [i \in 1..Len(big_df) |->
        [big_df[i] EXCEPT !.area = FracMul(@, pixel_rate),
                          !.perimeter = FracMul(@, pixel_rate)]]

\* pixel_conversion: area columns times rate squared, length columns times rate
pixel_conversion(big_df, pixel_rate) ==
    [i \in 1..Len(big_df) |->
        [big_df[i] EXCEPT !.area = FracMul(@, FracMul(pixel_rate, pixel_rate)),
                          !.perimeter = FracMul(@, pixel_rate)]]

RECURSIVE GCD(_, _)
GCD(a, b) == IF b = 0 THEN a ELSE GCD(b, a % b)

\* a fraction in lowest terms
Reduced(f) == <<f[1] \div GCD(f[1], f[2]), f[2] \div GCD(f[1], f[2])>>

FracAdd(a, b) == Reduced(<<a[1] * b[2] + b[1] * a[2], a[2] * b[2]>>)

\* the regions of an image on the pixel grid: each fills part of a box ten
\* columns wide and as high, in steps of four rows, as its area needs;
\* regions 1 and 2 lie side by side and share a stretch of border, every
\* other region and every drawn component lies apart from the rest
Height(b) == 4 * ((b[3] + 39) \div 40)

\* regionprops bbox of a blob: <<min_row, min_col, max_row, max_col>>
BBox(b) ==
    IF b[1] = "seg"
    THEN <<0, IF b[2] = 2 THEN 10 ELSE 20 * (b[2] - 1),
           Height(b), (IF b[2] = 2 THEN 10 ELSE 20 * (b[2] - 1)) + 10>>
    ELSE <<100, 20 * b[2], 100 + Height(b), 20 * b[2] + 10>>

Touches(b1, b2) == b1 # b2 /\ b1[1] = "seg" /\ b2[1] = "seg" /\ {b1[2], b2[2]} = {1, 2}

\* measure.label: the connected components of a mask, regions that touch
\* being one component
measure_label(binary_mask) == {{b} \cup {c \in binary_mask : Touches(b, c)} : b \in binary_mask}

Least(S) == CHOOSE x \in S : \A y \in S : x <= y

Greatest(S) == CHOOSE x \in S : \A y \in S : y <= x

\* regionprops of one component: area, perimeter (the border two regions
\* share is no longer on the outline), bounding-box area and extent
PropArea(comp) == SumOver(comp, 3)

PropPerimeter(comp) ==
    SumOver(comp, 4) - (IF Cardinality(comp) > 1 THEN 2 * Least({Height(b) : b \in comp}) ELSE 0)

PropBBoxArea(comp) ==
    (Greatest({BBox(b)[3] : b \in comp}) - Least({BBox(b)[1] : b \in comp}))
      * (Greatest({BBox(b)[4] : b \in comp}) - Least({BBox(b)[2] : b \in comp}))

PropExtent(comp) == <<PropArea(comp), PropBBoxArea(comp)>>

\* sum(p.area * p.extent for p in props)
RECURSIVE WeightedSum(_)
WeightedSum(props) ==
    IF props = {} THEN Frac(0)
    ELSE LET p == CHOOSE x \in props : TRUE
         IN  FracAdd(Reduced(FracMul(Frac(PropArea(p)), PropExtent(p))),
                     WeightedSum(props \ {p}))

RECURSIVE SumProps(_, _)
SumProps(props, which) ==
    IF props = {} THEN 0
    ELSE LET p == CHOOSE x \in props : TRUE
         IN  (IF which = "area" THEN PropArea(p) ELSE PropPerimeter(p))
                + SumProps(props \ {p}, which)

\* compute_region_properties that reports a record of zeros for a mask
\* with no component
compute_region_properties_zeros(binary_mask) ==
    IF measure_label(binary_mask) = {}
    THEN <<[image_name |-> <<>>, label |-> LabelInt(1), area |-> Frac(0),
            perimeter |-> Frac(0), extent |-> Frac(0)]>>
    ELSE <<[image_name |-> <<>>, label |-> LabelInt(1),
            area |-> Frac(SumProps(measure_label(binary_mask), "area")),
            perimeter |-> Frac(SumProps(measure_label(binary_mask), "perimeter")),
            extent |-> Reduced(FracMul(WeightedSum(measure_label(binary_mask)),
                                       <<1, SumProps(measure_label(binary_mask), "area")>>))]>>

\* compute_region_properties: one row aggregated over the connected
\* components of the mask, no row for a mask without components
compute_region_properties(binary_mask) ==
    IF measure_label(binary_mask) = {} THEN <<>>
    ELSE IF SumProps(measure_label(binary_mask), "area") = 0 THEN <<>>
    ELSE <<[image_name |-> <<>>, label |-> LabelInt(1),
            area |-> Frac(SumProps(measure_label(binary_mask), "area")),
            perimeter |-> Frac(SumProps(measure_label(binary_mask), "perimeter")),
            extent |-> Reduced(FracMul(WeightedSum(measure_label(binary_mask)),
                                       <<1, SumProps(measure_label(binary_mask), "area")>>))]>>

\* the rows analyze_segmented_cells returns for an image with n valid regions
analyze_segmented_cells(name, n) ==
    [i \in 1..n |-> [image_name |-> name, label |-> LabelInt(i),
                     area |-> Frac(SegArea(i)), perimeter |-> Frac(SegPerimeter(i)),
                     extent |-> PropExtent(MaskOf(i))]]

\* f"{row['image_name']}_{row['label']}"
RowKey(r) == r.image_name \o <<"_">> \o r.label.s

SetLabel(df, label, name) ==
    [i \in 1..Len(df) |-> [df[i] EXCEPT !.label = label, !.image_name = name]]

RECURSIVE Concat(_)
Concat(dfs) == IF dfs = <<>> THEN <<>> ELSE Head(dfs) \o Concat(Tail(dfs))

\* DataFrame.drop_duplicates(subset=['image_name', 'label']): keeps the first
drop_duplicates(df) ==
    LET keep == {i \in 1..Len(df) : \A j \in 1..(i - 1) :
                    ~(df[j].image_name = df[i].image_name /\ df[j].label = df[i].label)}
        RECURSIVE Pick(_)
        Pick(i) == IF i > Len(df) THEN <<>>
                   ELSE (IF i \in keep THEN <<df[i]>> ELSE <<>>) \o Pick(i + 1)
    IN  Pick(1)

\* float(text) of the pixel-rate field: the fraction, or "ValueError"
ParseRate(text) == IF text.kind = "num" THEN <<text.n, text.d>> ELSE <<0, 0>>

RateParses(text) == text.kind = "num"

\* ------------------------------------------------- main.py: the export
MaxDrawn == 2       \* most components on the drawing canvas of one viewer

min_area == 100     \* process_drawn_masks: smallest drawn component kept

DrawnPrefix == <<"d", "r", "a", "w", "n", "_">>

DrawnBlob(k, area) == <<"drawn", k, area, area \div 2>>

\* cb_data.get("is_active") is truthy
IsActiveEntry(e) == "is_active" \in DOMAIN e /\ e["is_active"]

\* save_props_to_csv and gather_active_keys: the keys of all viewers by state
ActiveKeys(viewers) ==
    UNION {{k \in DOMAIN viewers[i].callback_dict : IsActiveEntry(viewers[i].callback_dict[k])}
            : i \in 1..Len(viewers)}

\* an export that takes no key for inactive
InactiveKeys_none(viewers) == {}

InactiveKeys(viewers) ==
    UNION {{k \in DOMAIN viewers[i].callback_dict : ~IsActiveEntry(viewers[i].callback_dict[k])}
            : i \in 1..Len(viewers)}

\* get_merged_groups of every viewer, in list order: <<viewer index, group>>
GroupPairs(viewers) ==
    Concat([i \in 1..Len(viewers) |->
              [j \in 1..Len(viewers[i].connected_groups) |-> <<i, viewers[i].connected_groups[j]>>]])

GroupItems(V, g) == {get_item_by_id(V, mid) : mid \in V.groups[g].mask_ids} \ {0}

MergedLabelStr(items) ==
    <<"(">> \o Join(SortedStrs({StrInt(l) : l \in items}), <<",">>) \o <<")">>

\* one iteration of the loop of process_merged_masks
MergedStep(acc, vi, g, rate_text) ==
    LET V == acc.viewers[vi]
        group_items == GroupItems(V, g)
        image_name == V.name
        merged_label_str == MergedLabelStr(group_items)
        merged_key == image_name \o <<"_">> \o merged_label_str
        item_keys == {image_name \o <<"_">> \o StrInt(l) : l \in group_items}
        is_active == item_keys \subseteq acc.active_keys
        merged_mask == UNION {MaskOf(l) : l \in group_items}
        V1 == [V EXCEPT
                !.callback_dict = Put(@, merged_key, [is_active |-> is_active]),
                !.new_mask_dict = Put(@, merged_key,
                    [mask |-> merged_mask, source |-> "connect", image_name |-> image_name,
                     label_group |-> [list |-> TRUE,
                        items |-> LET ls == SortedStrs({StrInt(l) : l \in group_items})
                                  IN  [i \in 1..Len(ls) |-> LabelStr(ls[i])]]])]
        df_props == SetLabel(compute_region_properties(merged_mask),
                             LabelStr(merged_label_str), image_name)
        acc1 == [acc EXCEPT
                  !.viewers[vi] = V1,
                  !.merged_keys = @ \cup item_keys,
                  !.masks_keys = @ \cup {merged_key},
                  !.active_keys = IF is_active THEN @ \cup {merged_key} ELSE @,
                  !.inactive_keys = IF is_active THEN @ ELSE @ \cup {merged_key}]
    IN  IF group_items = {} THEN acc
        ELSE IF is_active THEN [acc1 EXCEPT !.new_rows = Append(@, df_props)]
        ELSE IF ~RateParses(rate_text) THEN [acc1 EXCEPT !.raised = TRUE]
        ELSE [acc1 EXCEPT !.excluded_rows =
                Append(@, pixel_conversion(df_props, ParseRate(rate_text)))]

RECURSIVE MergedLoop(_, _, _)
MergedLoop(acc, pairs, rate_text) ==
    IF pairs = <<>> \/ acc.raised THEN acc
    ELSE MergedLoop(MergedStep(acc, Head(pairs)[1], Head(pairs)[2], rate_text),
                    Tail(pairs), rate_text)

\* process_merged_masks that measures no group
process_merged_masks_none(viewers, active_keys, inactive_keys, rate_text) ==
    [viewers |-> viewers, active_keys |-> active_keys, inactive_keys |-> inactive_keys,
     new_rows |-> <<>>, excluded_rows |-> <<>>, merged_keys |-> {}, masks_keys |-> {},
     raised |-> FALSE]

\* process_merged_masks
process_merged_masks(viewers, active_keys, inactive_keys, rate_text) ==
    MergedLoop([viewers |-> viewers, active_keys |-> active_keys,
                inactive_keys |-> inactive_keys, new_rows |-> <<>>,
                excluded_rows |-> <<>>, merged_keys |-> {}, masks_keys |-> {},
                raised |-> FALSE],
               GroupPairs(viewers), rate_text)

\* the entries of new_mask_dict that process_disconnected_masks measures
DisconnectedKeys(V, active_keys, existing_keys) ==
    {k \in DOMAIN V.new_mask_dict :
        LET entry == V.new_mask_dict[k]
        IN  /\ entry.source = "disconnect"
            /\ entry.label_group.items # <<>>
            /\ LET cb_key == entry.image_name \o <<"_">> \o entry.label_group.items[1].s
               IN  cb_key \in active_keys /\ cb_key \notin existing_keys}

RECURSIVE DisconnectedRows(_, _)
DisconnectedRows(V, keys) ==
    IF keys = {} THEN <<>>
    ELSE LET k == CHOOSE x \in keys : TRUE
             entry == V.new_mask_dict[k]
         IN  <<SetLabel(compute_region_properties(entry.mask),
                        entry.label_group.items[1], entry.image_name)>>
                \o DisconnectedRows(V, keys \ {k})

\* process_disconnected_masks; with the ROI box ticked the call
\* add_roi_name_column(df_props, is_merged=False) raises TypeError
process_disconnected_masks(viewers, active_keys, existing_keys, roi_checked) ==
    LET keysOf(i) == DisconnectedKeys(viewers[i], active_keys, existing_keys)
    IN  [new_rows |-> Concat([i \in 1..Len(viewers) |-> DisconnectedRows(viewers[i], keysOf(i))]),
         masks_keys |-> UNION {keysOf(i) : i \in 1..Len(viewers)},
         raised |-> roi_checked /\ \E i \in 1..Len(viewers) : keysOf(i) # {}]

\* a filter that lets every component pass
TooSmall_never(area) == FALSE

\* "if prop.area < min_area: continue"
TooSmall(area) == area < min_area

\* the loop of process_drawn_masks over the components of one canvas;
\* labeled_mask is overwritten by the labels of the first component kept
RECURSIVE DrawnLoop(_, _, _, _, _)
DrawnLoop(V, k, overwritten, rows, image_dict) ==
    IF k > Len(V.canvas) THEN [v |-> V, new_rows |-> rows, raised |-> FALSE]
    ELSE IF TooSmall(V.canvas[k]) THEN DrawnLoop(V, k + 1, overwritten, rows, image_dict)
    ELSE LET region_mask == IF overwritten THEN {} ELSE {DrawnBlob(k, V.canvas[k])}
             label == DrawnPrefix \o StrInt(k)
             drawn_mask_key == V.name \o <<"_">> \o label
             V1 == [V EXCEPT
                     !.new_mask_dict = Put(@, drawn_mask_key,
                        [mask |-> region_mask, source |-> "draw", image_name |-> V.name]),
                     !.callback_dict = Put(@, drawn_mask_key,
                        [name |-> V.name, label |-> LabelStr(label),
                         is_active |-> TRUE, merged |-> FALSE])]
             df == SetLabel(compute_region_properties(region_mask), LabelStr(label), V.name)
         IN  IF V.name \notin image_dict THEN [v |-> V1, new_rows |-> rows, raised |-> TRUE]
             ELSE DrawnLoop(V1, k + 1, TRUE, Append(rows, df), image_dict)

RECURSIVE DrawnViewers(_, _, _, _)
DrawnViewers(viewers, i, rows, image_dict) ==
    IF i > Len(viewers) THEN [viewers |-> viewers, new_rows |-> rows, raised |-> FALSE]
    ELSE LET r == DrawnLoop(viewers[i], 1, FALSE, <<>>, image_dict)
             vs == [viewers EXCEPT ![i] = r.v]
         IN  IF r.raised THEN [viewers |-> vs, new_rows |-> rows, raised |-> TRUE]
             ELSE DrawnViewers(vs, i + 1, rows \o r.new_rows, image_dict)

\* process_drawn_masks that wipes every canvas it has measured
process_drawn_masks_once(viewers, image_dict) ==
    LET r == DrawnViewers(viewers, 1, <<>>, image_dict)
    IN  [r EXCEPT !.viewers = [i \in 1..Len(viewers) |-> [r.viewers[i] EXCEPT !.canvas = <<>>]]]

\* process_drawn_masks
process_drawn_masks(viewers, image_dict) == DrawnViewers(viewers, 1, <<>>, image_dict)

\* the keys process_drawn_masks stores in worker.masks_dict
DrawnMaskKeys(viewers) ==
    UNION {{viewers[i].name \o <<"_">> \o DrawnPrefix \o StrInt(k) :
                k \in {j \in 1..Len(viewers[i].canvas) : ~TooSmall(viewers[i].canvas[j])}}
            : i \in 1..Len(viewers)}

\* build_combined_and_excluded_df; new_rows and excluded_rows are lists of
\* frames, float() of the rate field raises ValueError for a non-number
build_combined_and_excluded_df(correct_df, new_rows, excluded_rows, inactive_keys, merged_keys, all_props_df, rate_text) ==
    LET excluded_keys == {RowKey(Concat(excluded_rows)[i]) : i \in 1..Len(Concat(excluded_rows))}
        KeepNew(r) == RowKey(r) \notin excluded_keys
        new_df == SelectSeq(pixel_conversion(Concat(new_rows), ParseRate(rate_text)), KeepNew)
        combined_df == IF new_rows # <<>> THEN correct_df \o new_df ELSE correct_df
        KeepExcluded(r) == RowKey(r) \in inactive_keys /\ RowKey(r) \notin merged_keys
        excluded_df == SelectSeq(all_props_df, KeepExcluded) \o Concat(excluded_rows)
    IN  [combined_df |-> combined_df, excluded_df |-> excluded_df,
         raised |-> new_rows # <<>> /\ ~RateParses(rate_text)]

\* build_group_label_map that maps no member
build_group_label_map_empty(viewers) == {}

\* build_group_label_map: the (image_name, label) pairs of all group members
build_group_label_map(viewers) ==
    UNION {{<<viewers[i].name, StrInt(l)>> :
                l \in UNION {GroupItems(viewers[i], viewers[i].connected_groups[j]) :
                                j \in 1..Len(viewers[i].connected_groups)}}
            : i \in 1..Len(viewers)}

StartsWithDrawn(s) == Len(s) >= Len(DrawnPrefix) /\ SubSeq(s, 1, Len(DrawnPrefix)) = DrawnPrefix

\* a last part that deduplicates without dropping the rows of group members
IntegrateFinal_keep_members(m, d, w, b, merged_individual_keys) ==
    IF m.raised \/ d.raised
    THEN [viewers |-> m.viewers, combined_df |-> <<>>, excluded_df |-> <<>>, raised |-> TRUE,
          active_keys |-> m.active_keys, masks_dict |-> {}]
    ELSE IF w.raised \/ b.raised
    THEN [viewers |-> w.viewers, combined_df |-> <<>>, excluded_df |-> <<>>, raised |-> TRUE,
          active_keys |-> m.active_keys, masks_dict |-> {}]
    ELSE [viewers |-> w.viewers,
          combined_df |-> drop_duplicates(b.combined_df),
          excluded_df |-> drop_duplicates(b.excluded_df),
          raised |-> FALSE,
          active_keys |-> m.active_keys,
          masks_dict |-> m.masks_keys \cup d.masks_keys \cup DrawnMaskKeys(w.viewers)]

\* integrate_new_objects, last part: the rows replaced by merged entries are
\* dropped and both tables are deduplicated
IntegrateFinal(m, d, w, b, merged_individual_keys) ==
    LET KeepCombined(r) == IF ~StartsWithDrawn(r.label.s)
                           THEN <<r.image_name, r.label.s>> \notin merged_individual_keys
                           ELSE TRUE
        KeepExcl(r) == <<r.image_name, r.label.s>> \notin merged_individual_keys
    IN  IF m.raised \/ d.raised
        THEN [viewers |-> m.viewers, combined_df |-> <<>>, excluded_df |-> <<>>, raised |-> TRUE,
              active_keys |-> m.active_keys, masks_dict |-> {}]
        ELSE IF w.raised \/ b.raised
        THEN [viewers |-> w.viewers, combined_df |-> <<>>, excluded_df |-> <<>>, raised |-> TRUE,
              active_keys |-> m.active_keys, masks_dict |-> {}]
        ELSE [viewers |-> w.viewers,
              combined_df |-> drop_duplicates(SelectSeq(b.combined_df, KeepCombined)),
              excluded_df |-> drop_duplicates(SelectSeq(b.excluded_df, KeepExcl)),
              raised |-> FALSE,
              active_keys |-> m.active_keys,
              masks_dict |-> m.masks_keys \cup d.masks_keys \cup DrawnMaskKeys(w.viewers)]

\* integrate_new_objects, the rows of the three kinds put together
IntegrateRows(correct_df, all_props_df, rate_text, m, d, w) ==
    IntegrateFinal(m, d, w,
        build_combined_and_excluded_df(correct_df, m.new_rows \o d.new_rows \o w.new_rows,
            m.excluded_rows, m.inactive_keys, m.merged_keys, all_props_df, rate_text),
        build_group_label_map(w.viewers))

\* integrate_new_objects, the disconnected and the drawn masks once the
\* merged ones are processed
IntegrateMerged(correct_df, all_props_df, image_dict, rate_text, roi_checked, m) ==
    IntegrateRows(correct_df, all_props_df, rate_text, m,
        process_disconnected_masks(m.viewers, m.active_keys,
            {RowKey(correct_df[i]) : i \in 1..Len(correct_df)}, roi_checked),
        process_drawn_masks(m.viewers, image_dict))

IntegrateActive(viewers, correct_df, all_props_df, image_dict, active_keys0, inactive_keys0, rate_text, roi_checked) ==
    IntegrateMerged(correct_df, all_props_df, image_dict, rate_text, roi_checked,
        process_merged_masks(viewers, active_keys0, inactive_keys0, rate_text))

\* integrate_new_objects: the active and the excluded table, and the viewers
\* with the entries the export writes into their dictionaries
integrate_new_objects(viewers, all_props_df, image_dict, active_keys0, inactive_keys0, rate_text, roi_checked) ==
    LET IsActiveRow(r) == RowKey(r) \in active_keys0
    IN  IF viewers = <<>>
        THEN [viewers |-> viewers, combined_df |-> all_props_df, excluded_df |-> <<>>,
              raised |-> FALSE, active_keys |-> active_keys0, masks_dict |-> {}]
        ELSE IntegrateActive(viewers, SelectSeq(all_props_df, IsActiveRow), all_props_df,
                             image_dict, active_keys0, inactive_keys0, rate_text, roi_checked)

\* save_props_to_csv: the two tables written to disk
save_props_to_csv(viewers, all_props_df, image_dict, rate_text, roi_checked) ==
    integrate_new_objects(viewers, all_props_df, image_dict,
                          ActiveKeys(viewers), InactiveKeys(viewers), rate_text, roi_checked)

\* ------------------------------------------------ main.py: ROI names
\* sub in s
Contains(s, sub) ==
    \E i \in 1..(Len(s) - Len(sub) + 1) : SubSeq(s, i, i + Len(sub) - 1) = sub

\* s.startswith(prefix)
StartsWith(s, prefix) == Len(s) >= Len(prefix) /\ SubSeq(s, 1, Len(prefix)) = prefix

\* os.path.splitext(name)[0]: the name up to its last dot, when that dot
\* follows a character that is not a dot
splitext_root(name) ==
    LET dots == {i \in 1..Len(name) : name[i] = "."
                    /\ \E j \in 1..(i - 1) : name[j] # "."}
    IN  IF dots = {} THEN name
        ELSE SubSeq(name, 1, (CHOOSE i \in dots : \A j \in dots : j <= i) - 1)

\* generate_roi_filename(image_name, label), label_str being str(label)
generate_roi_filename(image_name, label_str) ==
    LET base == splitext_root(image_name)
    IN  IF StartsWith(label_str, DrawnPrefix)
        THEN base \o <<"_">> \o label_str \o <<".", "r", "o", "i">>
        ELSE IF Contains(label_str, <<"_", "m", "e", "r", "g", "e", "d">>)
                \/ Contains(label_str, <<"(", "m", "e", "r", "g", "e", "d", ")">>)
        THEN base \o <<"_", "l", "a", "b", "e", "l", "_">> \o label_str
                  \o <<"_", "m", "e", "r", "g", "e", "d", ".", "r", "o", "i">>
        ELSE IF Contains(label_str, <<"_", "d", "i", "s", "c", "o", "n", "n", "e", "c", "t", "e", "d">>)
        THEN base \o <<"_", "l", "a", "b", "e", "l", "_">> \o label_str
                  \o <<"_", "d", "i", "s", "c", "o", "n", "n", "e", "c", "t", "e", "d",
                       ".", "r", "o", "i">>
        ELSE base \o <<"_", "l", "a", "b", "e", "l">> \o label_str \o <<".", "r", "o", "i">>

\* add_roi_name_column: the roi_name of every row of a table
add_roi_name_column(df) ==
    [i \in 1..Len(df) |-> generate_roi_filename(df[i].image_name, df[i].label.s)]

\* ------------------------------------------------ main.py: outlines
\* filter_active_labels: the rows whose key is active and whose label is not blank
filter_active_labels(df, active_keys) ==
    LET Keep(r) == RowKey(r) \in active_keys
                    /\ \E i \in 1..Len(r.label.s) : r.label.s[i] # " "
    IN  SelectSeq(df, Keep)

\* a lookup that raises for a key it cannot resolve
NoMask_raises == [found |-> FALSE, mask |-> {}, raised |-> TRUE]

\* get_mask_by_key and reconstruct_mask_from_callback returning None
NoMask == [found |-> FALSE, mask |-> {}, raised |-> FALSE]

\* reconstruct_mask_from_callback: the entries of worker.masks_dict hold a
\* "mask" only, so the lookup of "label_mask" raises KeyError
reconstruct_mask_from_callback(masks_dict, cb_data) ==
    IF "name" \in DOMAIN cb_data /\ cb_data["name"] \in masks_dict
    THEN [found |-> FALSE, mask |-> {}, raised |-> TRUE]
    ELSE NoMask

\* get_mask_by_key: the mask of the first viewer that holds the key in
\* new_mask_dict, else what the first callback entry under the key gives;
\* no callback entry carries a "mask" or a "binary_mask"
get_mask_by_key(viewers, masks_dict, mask_key) ==
    LET holders == {i \in 1..Len(viewers) : mask_key \in DOMAIN viewers[i].new_mask_dict}
        cbs == {i \in 1..Len(viewers) : mask_key \in DOMAIN viewers[i].callback_dict}
    IN  IF holders # {}
        THEN [found |-> TRUE, raised |-> FALSE,
              mask |-> viewers[CHOOSE i \in holders : \A j \in holders : i <= j]
                            .new_mask_dict[mask_key].mask]
        ELSE IF cbs # {}
        THEN reconstruct_mask_from_callback(masks_dict,
                viewers[CHOOSE i \in cbs : \A j \in cbs : i <= j].callback_dict[mask_key])
        ELSE NoMask

IsDigits(s) == s # <<>> /\ \A i \in 1..Len(s) : \E c \in 1..10 : Digits[c] = s[i]

\* assign_label_value, n being len(label_map)
assign_label_value(label_str, n) ==
    IF StartsWith(label_str, DrawnPrefix) THEN 3000 + n + 1
    ELSE IF Contains(label_str, <<"(">>) THEN 1000 + n + 1
    ELSE IF IsDigits(label_str) THEN ParseInt(label_str)
    ELSE 2000 + n + 1

\* one iteration of the loop of collect_masks; full_mask maps the blobs
\* painted so far, per image, to their label value
CollectStep(acc, viewers, masks_dict, row) ==
    LET mask_key == RowKey(row)
        got == get_mask_by_key(viewers, masks_dict, mask_key)
        label_value == assign_label_value(row.label.s, Cardinality(DOMAIN acc.label_map))
        painted == {<<row.image_name, b>> : b \in got.mask}
    IN  IF got.raised THEN [acc EXCEPT !.raised = TRUE]
        ELSE IF ~got.found \/ SumOver(got.mask, 3) = 0 THEN acc
        ELSE [acc EXCEPT
                !.label_map = Put(@, mask_key, label_value),
                !.full_mask = [p \in (DOMAIN @) \cup painted |->
                                  IF p \in painted THEN label_value ELSE @[p]]]

RECURSIVE CollectLoop(_, _, _, _)
CollectLoop(acc, viewers, masks_dict, df) ==
    IF df = <<>> \/ acc.raised THEN acc
    ELSE CollectLoop(CollectStep(acc, viewers, masks_dict, Head(df)),
                     viewers, masks_dict, Tail(df))

\* collect_masks
collect_masks(viewers, masks_dict, df) ==
    CollectLoop([label_map |-> EmptyDict, full_mask |-> EmptyDict, raised |-> FALSE],
                viewers, masks_dict, df)

zip_name(image_name) == splitext_root(image_name) \o <<".", "z", "i", "p">>

\* export_rois_to_zip: <<archive, file>> for every key of an image whose
\* label value is left on a blob of the image; every blob has a contour of
\* ten points or more
export_rois_to_zip(full_mask, label_map) ==
    LET images == {p[1] : p \in DOMAIN full_mask}
        KeysOf(image_name) ==
            {key \in DOMAIN label_map :
                /\ StartsWith(key, image_name \o <<"_">>)
                /\ \E p \in DOMAIN full_mask :
                      p[1] = image_name /\ full_mask[p] = label_map[key]}
    IN  UNION {{<<zip_name(image_name),
                  generate_roi_filename(image_name,
                      SubSeq(key, Len(image_name) + 2, Len(key)))>> : key \in KeysOf(image_name)}
                : image_name \in images}

\* save_rois_to_zip once the new objects are integrated
SaveRois(r, c) ==
    [viewers |-> r.viewers, raised |-> r.raised \/ c.raised, cleared |-> ~r.raised,
     roi_files |-> export_rois_to_zip(c.full_mask, c.label_map)]

\* save_rois_to_zip: integrates the new objects once more, with no inactive
\* keys, and writes the outlines of the rows that are left
SaveRoisOf(r) ==
    SaveRois(r, collect_masks(r.viewers, r.masks_dict,
                              filter_active_labels(r.combined_df, r.active_keys)))

save_rois_to_zip(viewers, all_props_df, image_dict, rate_text, roi_checked) ==
    SaveRoisOf(integrate_new_objects(viewers, all_props_df, image_dict,
                                     ActiveKeys(viewers), {}, rate_text, roi_checked))

\* ---------------------------------------------------------------- state
VARIABLES
    crashed,                 \* an exception left a Qt slot: PyQt aborts the application
    ctrl_mode,               \* ViewerModeController._mode
    gray_viewers,            \* ImageProcessingApp.gray_viewers, one registry per image
    pixel_rate_text,         \* the text of input_form.pixel_rate
    processing_in_progress,  \* ImageProcessingApp.processing_in_progress
    status,                  \* the text of input_form.processing_label
    save_shown,              \* the Save control is in the layout
    stop_button,             \* "none", "enabled" or "disabled"
    worker,                  \* the ImageProcessingWorker of the current run
    gui_queue,               \* signals of the worker queued for the GUI thread
    csv_active,              \* the active table of the last export
    csv_excluded,            \* the excluded table of the last export
    csv_written,             \* the last press of Save wrote the two tables
    roi_files,               \* the outline files in the ROI folder: <<archive, file>>
    edits,                   \* curation edits left in the session
    exports,                 \* exports so far
    runs                     \* accepted presses of Process so far

vars == <<crashed, ctrl_mode, gray_viewers, pixel_rate_text, processing_in_progress,
          status, save_shown, stop_button, worker, gui_queue, csv_active, csv_excluded,
          csv_written, roi_files, edits, exports, runs>>

appVars == <<processing_in_progress, status, save_shown, stop_button, worker, gui_queue>>

outVars == <<csv_active, csv_excluded, csv_written, roi_files, exports>>

\* texts a user can leave in the pixel-rate field: empty, not a number, or a number
NumText(n, d) == [kind |-> "num", n |-> n, d |-> d]

RateTexts == {[kind |-> "empty", n |-> 0, d |-> 1], [kind |-> "bad", n |-> 0, d |-> 1],
              NumText(-1, 2), NumText(0, 1), NumText(18, 100), NumText(2, 1), NumText(5, 2)}

\* the ceiling of ImageProcessingWorker.run for the conversion rate
rate_ceiling == 2

NoWorker == [exists |-> FALSE]

\* ImageProcessingWorker.__init__
NewWorker(images, rate, fields_ok) ==
    [exists |-> TRUE, pixel_conv_rate |-> rate, fields_ok |-> fields_ok, images |-> images,
     active |-> TRUE, count |-> 0, pc |-> "start", idx |-> 1, n |-> 0,
     has_df |-> FALSE, all_props_df |-> <<>>, image_dict |-> {}]

Emit(q, kind) == Append(q, [kind |-> kind])

EmitStatus(q, msg) == Append(q, [kind |-> "status_update", msg |-> msg])

\* ------------------------------------------- main.py: the producer thread
\* a loop that names every image after the first one of the folder
CurName_first == worker.images[1]

\* name of the loop "for num, (name, image) in enumerate(self.images.items())"
CurName == worker.images[worker.idx]

\* the thread leaves run(): QThread.finished follows
Return(w, q) ==
    /\ worker' = [w EXCEPT !.pc = "done"]
    /\ gui_queue' = Emit(q, "thread_finished")

\* "continue", and the end of an iteration: the next image
NextImage(w) == [w EXCEPT !.idx = @ + 1, !.pc = "loop"]

\* run(): the preliminary checks
W_Validate ==
    /\ ~crashed
    /\ worker.exists /\ worker.pc = "start"
    /\ IF ~worker.active THEN Return(worker, gui_queue)
       ELSE IF ~worker.fields_ok
       THEN Return(worker, Emit(EmitStatus(gui_queue, "Invalid form input"), "finished_processing"))
       ELSE IF worker.pixel_conv_rate.kind # "num" \/ worker.pixel_conv_rate.n = 0
       THEN Return(worker, Emit(EmitStatus(gui_queue,
                "Please input pixel-to-micron conversion rate"), "finished_processing"))
       ELSE IF FracGt(ParseRate(worker.pixel_conv_rate), Frac(rate_ceiling))
       THEN Return(worker, Emit(EmitStatus(gui_queue,
                "Invalid pixel-to-micron conversion rate!"), "finished_processing"))
       ELSE IF worker.images = <<>>
       THEN Return(worker, Emit(EmitStatus(gui_queue,
                "No images loaded into the system!"), "finished_processing"))
       ELSE /\ worker' = [worker EXCEPT !.pc = "loop", !.has_df = TRUE, !.all_props_df = <<>>]
            /\ gui_queue' = EmitStatus(gui_queue, "Processing started...")
    /\ UNCHANGED <<crashed, ctrl_mode, gray_viewers, pixel_rate_text, processing_in_progress,
                   status, save_shown, stop_button, outVars, edits, runs>>

\* a loop that never looks at the active flag
Cancelled_never(w) == FALSE

\* run(): "if not self.active: break", between and within the stages
Cancelled(w) == ~w.active

\* run(): the head of the loop over the images, and the companion image
W_LoopHead ==
    /\ ~crashed
    /\ worker.exists /\ worker.pc = "loop"
    /\ IF worker.idx > Len(worker.images) \/ Cancelled(worker)
       THEN worker' = [worker EXCEPT !.pc = "post"] /\ UNCHANGED gui_queue
       ELSE \E nucleus_missing \in BOOLEAN :
              IF nucleus_missing
              THEN Return(worker, Emit(EmitStatus(gui_queue, "Missing nucleus image"),
                                       "finished_processing"))
              ELSE worker' = [worker EXCEPT !.pc = "pre"] /\ UNCHANGED gui_queue
    /\ UNCHANGED <<crashed, ctrl_mode, gray_viewers, pixel_rate_text, processing_in_progress,
                   status, save_shown, stop_button, outVars, edits, runs>>

\* run(): one stage of the image in flight; each stage first reads the
\* active flag and breaks out of the loop when it is cleared, and an
\* exception of the stage moves on to the next image
W_Stage ==
    /\ ~crashed
    /\ worker.exists /\ worker.pc \in {"pre", "eval", "analyze", "store", "norm", "pixmap"}
    /\ IF Cancelled(worker) THEN worker' = [worker EXCEPT !.pc = "post"]
       ELSE \/ /\ worker.pc = "pre"
               /\ \E ok \in BOOLEAN :
                    worker' = IF ok THEN [worker EXCEPT !.pc = "eval"] ELSE NextImage(worker)
            \/ /\ worker.pc = "eval"
               /\ \E ok \in BOOLEAN :
                    worker' = IF ok
                              THEN [worker EXCEPT !.pc = "analyze",
                                                 !.image_dict = @ \cup {CurName}]
                              ELSE NextImage([worker EXCEPT !.image_dict = @ \cup {CurName}])
            \/ /\ worker.pc = "analyze"
               /\ \E n \in 0..NumMasks :
                    worker' = IF n > 0 THEN [worker EXCEPT !.pc = "store", !.n = n]
                              ELSE NextImage(worker)
            \/ /\ worker.pc = "store"
               /\ worker' = [worker EXCEPT !.pc = "concat"]
            \/ /\ worker.pc = "norm"
               /\ worker' = [worker EXCEPT !.pc = "pixmap"]
            \/ /\ worker.pc = "pixmap"
               /\ worker' = [worker EXCEPT !.pc = "emit"]
    /\ UNCHANGED <<crashed, ctrl_mode, gray_viewers, pixel_rate_text, processing_in_progress,
                   status, save_shown, stop_button, gui_queue, outVars, edits, runs>>

\* run(): "if df is not None and self.active": the rows of the image join
\* all_props_df
W_Concat ==
    /\ ~crashed
    /\ worker.exists /\ worker.pc = "concat"
    /\ worker' = IF worker.active
                 THEN [worker EXCEPT !.pc = "norm",
                         !.all_props_df = @ \o analyze_segmented_cells(CurName, worker.n)]
                 ELSE NextImage(worker)
    /\ UNCHANGED <<crashed, ctrl_mode, gray_viewers, pixel_rate_text, processing_in_progress,
                   status, save_shown, stop_button, gui_queue, outVars, edits, runs>>

\* W_Emit that offers the save control as soon as an image is ready
W_Emit_offers ==
    /\ ~crashed
    /\ worker.exists /\ worker.pc = "emit"
    /\ worker' = [worker EXCEPT !.pc = "count"]
    /\ gui_queue' = Emit(Append(gui_queue,
            [kind |-> "image_processed", name |-> CurName, n |-> worker.n]), "show_save_all")
    /\ UNCHANGED <<crashed, ctrl_mode, gray_viewers, pixel_rate_text, processing_in_progress,
                   status, save_shown, stop_button, outVars, edits, runs>>

\* run(): the pixmaps are built and the image-ready signal is emitted; the
\* active flag was last read before the pixmaps and is not read again
W_Emit ==
    /\ ~crashed
    /\ worker.exists /\ worker.pc = "emit"
    /\ worker' = [worker EXCEPT !.pc = "count"]
    /\ gui_queue' = Append(gui_queue,
            [kind |-> "image_processed", name |-> CurName, n |-> worker.n])
    /\ UNCHANGED <<crashed, ctrl_mode, gray_viewers, pixel_rate_text, processing_in_progress,
                   status, save_shown, stop_button, outVars, edits, runs>>

\* run(): self.count += 1 and the end of the iteration
W_Count ==
    /\ ~crashed
    /\ worker.exists /\ worker.pc = "count"
    /\ worker' = NextImage([worker EXCEPT !.count = @ + 1])
    /\ UNCHANGED <<crashed, ctrl_mode, gray_viewers, pixel_rate_text, processing_in_progress,
                   status, save_shown, stop_button, gui_queue, outVars, edits, runs>>

\* a test that takes a stopped run for a run without images
PostCompletes_unstopped(w) == w.active /\ w.count >= 1

\* run(): "if (fail and self.active and self.count >= 1) or (not self.active)"
PostCompletes(w) == (w.active /\ w.count >= 1) \/ ~w.active

\* post-processing that is silent when no image was processed
W_Post_silent ==
    /\ ~crashed
    /\ worker.exists /\ worker.pc = "post"
    /\ IF PostCompletes(worker)
       THEN Return([worker EXCEPT !.all_props_df =
                        pixel_conversion(@, ParseRate(worker.pixel_conv_rate))],
                   Emit(Emit(EmitStatus(gui_queue, "Processing completed!"),
                             "show_save_all"), "finished_processing"))
       ELSE Return(worker, EmitStatus(gui_queue, "No images processed."))
    /\ UNCHANGED <<crashed, ctrl_mode, gray_viewers, pixel_rate_text, processing_in_progress,
                   status, save_shown, stop_button, outVars, edits, runs>>

\* run(): post-processing
W_Post ==
    /\ ~crashed
    /\ worker.exists /\ worker.pc = "post"
    /\ IF PostCompletes(worker)
       THEN Return([worker EXCEPT !.all_props_df =
                        pixel_conversion(@, ParseRate(worker.pixel_conv_rate))],
                   Emit(Emit(EmitStatus(gui_queue, "Processing completed!"),
                             "show_save_all"), "finished_processing"))
       ELSE Return(worker, Emit(EmitStatus(gui_queue, "No images processed."),
                                "finished_processing"))
    /\ UNCHANGED <<crashed, ctrl_mode, gray_viewers, pixel_rate_text, processing_in_progress,
                   status, save_shown, stop_button, outVars, edits, runs>>

\* ------------------------------------------------ main.py: the GUI thread
\* the folders a run can open: a run of image files of the pool
ImageLists ==
    {<<>>} \cup {SubSeq(NamePool, i, j) : i \in 1..Len(NamePool), j \in 1..Len(NamePool)}

\* the reset that leaves the emptied viewers in the list
reset_viewers_keep(viewers) ==
    LET old == [i \in 1..Len(viewers) |->
                    Collect([viewers[i] EXCEPT !.connected_groups = <<>>,
                                               !.mask_id_to_group = EmptyDict,
                                               !.new_mask_dict = EmptyDict])]
    IN  [old |-> old, list |-> old]

\* on_process_clicked and start_processing, "Reset image viewer data": the
\* registries of every viewer of the previous run are emptied (old), and
\* the list of viewers is cleared (list)
reset_viewers(viewers) ==
    LET old == [i \in 1..Len(viewers) |->
                    Collect([viewers[i] EXCEPT !.connected_groups = <<>>,
                                               !.mask_id_to_group = EmptyDict,
                                               !.new_mask_dict = EmptyDict])]
    IN  [old |-> old, list |-> <<>>]

\* a Process button that is never deaf
ProcessIgnored_never(in_progress) == FALSE

\* on_process_clicked: "if self.processing_in_progress: return"
ProcessIgnored(in_progress) == in_progress

\* on_process_clicked with start_processing; a text that float() rejects
\* makes start_processing return before a worker exists, and the test of
\* self.worker that follows in on_process_clicked raises AttributeError
ProcessClick ==
    /\ ~crashed
    /\ ~ProcessIgnored(processing_in_progress)
    /\ runs < MaxRuns
    /\ \E model_ok \in BOOLEAN, numbers_ok \in BOOLEAN, fields_ok \in BOOLEAN,
          images \in ImageLists :
        /\ Len(images) <= NumImages
        /\ gray_viewers' = reset_viewers(gray_viewers).list
        /\ IF ~model_ok
           THEN /\ status' = "Model loading error"
                /\ UNCHANGED <<crashed, processing_in_progress, save_shown, stop_button,
                               worker, runs>>
           ELSE IF ~numbers_ok \/ pixel_rate_text.kind = "bad"
           THEN /\ status' = "Invalid input, please refer to instructions!"
                /\ processing_in_progress' = FALSE
                /\ worker' = NoWorker
                /\ crashed' = TRUE
                /\ stop_button' = "none"
                /\ save_shown' = FALSE
                /\ UNCHANGED runs
           ELSE /\ status' = "Processing started..."
                /\ processing_in_progress' = TRUE
                /\ stop_button' = "none"
                /\ save_shown' = FALSE
                /\ worker' = NewWorker(images, pixel_rate_text, fields_ok)
                /\ runs' = runs + 1
                /\ UNCHANGED crashed
    /\ UNCHANGED <<ctrl_mode, pixel_rate_text, gui_queue, outVars, edits>>

\* on_process_stop, reachable through the stop button
StopClick ==
    /\ ~crashed
    /\ stop_button = "enabled"
    /\ worker.exists
    /\ worker' = [worker EXCEPT !.active = FALSE]
    /\ status' = "Stopping..."
    /\ stop_button' = "disabled"
    /\ UNCHANGED <<crashed, ctrl_mode, gray_viewers, pixel_rate_text, processing_in_progress,
                   save_shown, gui_queue, outVars, edits, runs>>

\* the slots of the worker's signals, run in the order the signals were
\* queued: add_images_to_scrollable_area with update_stop_button,
\* update_status_label, show_save_all, processing_done, and the removal of
\* the stop button when the thread has finished
HandleSignal ==
    /\ ~crashed
    /\ gui_queue # <<>>
    /\ LET ev == Head(gui_queue) IN
        /\ gui_queue' = Tail(gui_queue)
        /\ gray_viewers' = IF ev.kind = "image_processed"
                           THEN Append(gray_viewers, NewViewer(ev.name, ev.n, ctrl_mode))
                           ELSE gray_viewers
        /\ stop_button' = IF ev.kind = "image_processed" /\ stop_button = "none"
                             /\ worker.exists /\ worker.count > 0
                          THEN "enabled"
                          ELSE IF ev.kind = "thread_finished" /\ stop_button # "none"
                          THEN "deleted"
                          ELSE stop_button
        /\ status' = IF ev.kind = "status_update" THEN ev.msg ELSE status
        /\ save_shown' = IF ev.kind = "show_save_all" THEN TRUE ELSE save_shown
        /\ processing_in_progress' =
                IF ev.kind = "finished_processing" THEN FALSE ELSE processing_in_progress
    /\ UNCHANGED <<crashed, ctrl_mode, pixel_rate_text, worker, outVars, edits, runs>>

\* the user retypes the pixel-rate field
EditRate ==
    /\ ~crashed
    /\ \E t \in RateTexts : t # pixel_rate_text /\ pixel_rate_text' = t
    /\ UNCHANGED <<crashed, ctrl_mode, gray_viewers, appVars, outVars, edits, runs>>

Modes == {"toggle", "connect", "draw", "erase", "none"}

\* update_modes and keyPressEvent: ViewerModeController.set_mode
SetMode ==
    /\ ~crashed
    /\ gray_viewers # <<>>
    /\ \E m \in Modes :
        /\ m # ctrl_mode
        /\ ctrl_mode' = m
        /\ gray_viewers' = [i \in 1..Len(gray_viewers) |-> set_mode(gray_viewers[i], m)]
    /\ UNCHANGED <<crashed, pixel_rate_text, appVars, outVars, edits, runs>>

\* the outcome of a slot of one viewer: its new registry, or the abort
Outcome(v, r) ==
    /\ ~crashed
    /\ edits > 0
    /\ crashed' = r.raised
    /\ gray_viewers' = [gray_viewers EXCEPT ![v] = Collect(r.v)]
    /\ edits' = edits - 1

\* a left click on a mask item
ClickMask ==
    /\ \E v \in 1..Len(gray_viewers) : \E l \in gray_viewers[v].labels :
        Outcome(v, mask_mousePressEvent(gray_viewers[v], l))
    /\ UNCHANGED <<ctrl_mode, pixel_rate_text, appVars, outVars, runs>>

\* the blobs a stroke on the viewer can touch
Blobs(V) == UNION {MaskOf(l) : l \in V.labels}

\* a stroke drawn with the left button and released
Stroke ==
    /\ \E v \in 1..Len(gray_viewers) : \E path \in SUBSET Blobs(gray_viewers[v]) :
        Outcome(v, viewer_mouseReleaseEvent(gray_viewers[v], path))
    /\ UNCHANGED <<ctrl_mode, pixel_rate_text, appVars, outVars, runs>>

\* areas of the components a drawing can leave on the canvas once it is
\* thresholded, closed and filled: below min_area, and just large enough
DrawnAreas == {min_area - 1, min_area}

InsertAt(q, i, x) == SubSeq(q, 1, i - 1) \o <<x>> \o SubSeq(q, i, Len(q))

RemoveAt(q, i) == SubSeq(q, 1, i - 1) \o SubSeq(q, i + 1, Len(q))

\* mouse strokes in draw mode: one more component on the drawing canvas,
\* numbered by its place in raster order
Draw ==
    /\ ~crashed
    /\ \E v \in 1..Len(gray_viewers) :
        /\ gray_viewers[v].mode = "draw"
        /\ Len(gray_viewers[v].canvas) < MaxDrawn
        /\ \E i \in 1..(Len(gray_viewers[v].canvas) + 1), a \in DrawnAreas :
            gray_viewers' = [gray_viewers EXCEPT ![v].canvas = InsertAt(@, i, a)]
    /\ edits > 0
    /\ edits' = edits - 1
    /\ UNCHANGED <<crashed, ctrl_mode, pixel_rate_text, appVars, outVars, runs>>

\* mouse strokes in erase mode: a component is wiped off the canvas
Erase ==
    /\ ~crashed
    /\ \E v \in 1..Len(gray_viewers) :
        /\ gray_viewers[v].mode = "erase"
        /\ \E i \in 1..Len(gray_viewers[v].canvas) :
            gray_viewers' = [gray_viewers EXCEPT ![v].canvas = RemoveAt(@, i)]
    /\ edits > 0
    /\ edits' = edits - 1
    /\ UNCHANGED <<crashed, ctrl_mode, pixel_rate_text, appVars, outVars, runs>>

\* collect_all_callbacks, the results of its two calls taken together
ExportDone(save_csv, save_rois, c, z) ==
    /\ gray_viewers' = IF save_csv /\ c.raised THEN c.viewers
                       ELSE IF save_rois THEN z.viewers
                       ELSE IF save_csv THEN c.viewers
                       ELSE gray_viewers
    /\ crashed' = ((save_csv /\ c.raised) \/ (save_rois /\ z.raised))
    /\ csv_active' = IF save_csv /\ ~c.raised THEN c.combined_df ELSE csv_active
    /\ csv_excluded' = IF save_csv /\ ~c.raised THEN c.excluded_df ELSE csv_excluded
    /\ csv_written' = (save_csv /\ ~c.raised)
    /\ roi_files' = IF (save_csv /\ c.raised) \/ ~save_rois THEN roi_files
                    ELSE IF ~z.raised THEN z.roi_files
                    ELSE IF z.cleared THEN {}
                    ELSE roi_files

\* collect_all_callbacks, save_rois_to_zip after save_props_to_csv
ExportCsv(save_csv, save_rois, c) ==
    ExportDone(save_csv, save_rois, c,
        save_rois_to_zip(IF save_csv THEN c.viewers ELSE gray_viewers,
                         worker.all_props_df, worker.image_dict, pixel_rate_text, save_rois))

\* collect_all_callbacks: the Save button with its two check boxes
Export ==
    /\ ~crashed
    /\ save_shown
    /\ worker.exists /\ worker.has_df
    /\ exports < MaxExports
    /\ \E save_csv \in BOOLEAN, save_rois \in BOOLEAN :
        ExportCsv(save_csv, save_rois,
            save_props_to_csv(gray_viewers, worker.all_props_df, worker.image_dict,
                              pixel_rate_text, save_rois))
    /\ exports' = exports + 1
    /\ UNCHANGED <<ctrl_mode, pixel_rate_text, appVars, edits, runs>>

\* --------------------------------------------------------- specifications
\* the worker of a run that has finished for one image with n regions
DoneWorker(name, n, rate) ==
    [NewWorker(<<name>>, rate, TRUE) EXCEPT
        !.pc = "done", !.idx = 2, !.n = n, !.count = 1, !.has_df = TRUE,
        !.image_dict = {name},
        !.all_props_df = pixel_conversion(analyze_segmented_cells(name, n), ParseRate(rate))]

\* curation: a run over one image has finished, its viewer is on screen in
\* toggle mode and the Save control is shown
Init ==
    /\ crashed = FALSE
    /\ ctrl_mode = "toggle"
    /\ pixel_rate_text = NumText(18, 100)
    /\ \E name \in {NamePool[1], NamePool[2]} :
        /\ gray_viewers = <<NewViewer(name, NumMasks, "toggle")>>
        /\ worker = DoneWorker(name, NumMasks, pixel_rate_text)
    /\ processing_in_progress = FALSE
    /\ status = "Processing completed!"
    /\ save_shown = TRUE
    /\ stop_button = "none"
    /\ gui_queue = <<>>
    /\ csv_active = <<>>
    /\ csv_excluded = <<>>
    /\ csv_written = FALSE
    /\ roi_files = {}
    /\ edits = MaxEdits
    /\ exports = 0
    /\ runs = 1

Next ==
    \/ SetMode
    \/ ClickMask
    \/ Stroke
    \/ Draw
    \/ Erase
    \/ Export

Spec == Init /\ [][Next]_vars

\* runs: the application as constructed, the form, the producer thread and
\* the export of what it produced; the viewers are left as they were built
InitRun ==
    /\ crashed = FALSE
    /\ ctrl_mode = "toggle"
    /\ pixel_rate_text = [kind |-> "empty", n |-> 0, d |-> 1]
    /\ gray_viewers = <<>>
    /\ worker = NoWorker
    /\ processing_in_progress = FALSE
    /\ status = ""
    /\ save_shown = FALSE
    /\ stop_button = "none"
    /\ gui_queue = <<>>
    /\ csv_active = <<>>
    /\ csv_excluded = <<>>
    /\ csv_written = FALSE
    /\ roi_files = {}
    /\ edits = 0
    /\ exports = 0
    /\ runs = 0

NextRun ==
    \/ EditRate
    \/ ProcessClick
    \/ StopClick
    \/ HandleSignal
    \/ W_Validate
    \/ W_LoopHead
    \/ W_Stage
    \/ W_Concat
    \/ W_Emit
    \/ W_Count
    \/ W_Post
    \/ Export

SpecRun == InitRun /\ [][NextRun]_vars

\* the producer is a QThread of its own and the GUI thread runs its event
\* loop: neither is held back for ever
SpecRunFair ==
    /\ SpecRun
    /\ WF_vars(W_Validate) /\ WF_vars(W_LoopHead) /\ WF_vars(W_Stage) /\ WF_vars(W_Concat)
    /\ WF_vars(W_Emit) /\ WF_vars(W_Count) /\ WF_vars(W_Post)
    /\ WF_vars(HandleSignal)

\* the final deduplication on its own: the combined table as
\* build_combined_and_excluded_df puts it together, the rows of the batch
\* first and the rows of the edits after them, then drop_duplicates
MaxRows == 2        \* most rows of either part of a combined table

\* a row of the batch output for region l of the first image
BatchRow(l) ==
    pixel_conversion(analyze_segmented_cells(NamePool[1], NumMasks), ParseRate(NumText(18, 100)))[l]

\* a row an edit produces under the key of region l: the same key, measured anew
EditRow(l) == [BatchRow(l) EXCEPT !.area = FracMul(@, Frac(2))]

TablesOf(rows) == UNION {[1..n -> rows] : n \in 0..MaxRows}

\* build_combined_and_excluded_df: pd.concat([correct_df, new_df])
LoadTable ==
    /\ ~crashed
    /\ ~csv_written /\ csv_active = <<>>
    /\ \E correct_df \in TablesOf({BatchRow(l) : l \in 1..2}),
          new_df \in TablesOf({EditRow(l) : l \in 1..2}) :
        /\ correct_df \o new_df # <<>>
        /\ csv_active' = correct_df \o new_df
    /\ UNCHANGED <<crashed, ctrl_mode, gray_viewers, pixel_rate_text, appVars, csv_excluded,
                   csv_written, roi_files, exports, edits, runs>>

\* integrate_new_objects: the final deduplication, and the table is written
Deduplicate ==
    /\ ~crashed
    /\ ~csv_written /\ csv_active # <<>>
    /\ csv_active' = drop_duplicates(csv_active)
    /\ csv_written' = TRUE
    /\ exports' = exports + 1
    /\ UNCHANGED <<crashed, ctrl_mode, gray_viewers, pixel_rate_text, appVars, csv_excluded,
                   roi_files, edits, runs>>

NextDedup ==
    \/ LoadTable
    \/ Deduplicate

SpecDedup == Init /\ [][NextDedup]_vars

\* a registry whose mask entry for region l is gone, or holds an empty mask
Orphaned(V, l, kind) ==
    [V EXCEPT !.new_mask_dict =
        IF kind = "missing" THEN Pop(@, get_mask_id(V.name, l))
        ELSE [@ EXCEPT ![get_mask_id(V.name, l)].mask = {}]]

\* curation and export over a registry in which the mask of one region
\* cannot be resolved under its key, or resolves to an empty mask
InitOutline ==
    /\ crashed = FALSE
    /\ ctrl_mode = "toggle"
    /\ pixel_rate_text = NumText(18, 100)
    /\ \E l \in 1..NumMasks, kind \in {"missing", "empty"} :
        gray_viewers = <<Orphaned(NewViewer(NamePool[1], NumMasks, "toggle"), l, kind)>>
    /\ worker = DoneWorker(NamePool[1], NumMasks, pixel_rate_text)
    /\ processing_in_progress = FALSE
    /\ status = "Processing completed!"
    /\ save_shown = TRUE
    /\ stop_button = "none"
    /\ gui_queue = <<>>
    /\ csv_active = <<>>
    /\ csv_excluded = <<>>
    /\ csv_written = FALSE
    /\ roi_files = {}
    /\ edits = MaxEdits - 1
    /\ exports = 0
    /\ runs = 1

SpecOutline == InitOutline /\ [][Next]_vars

\* curation by clicks and strokes alone, over an image with one region more,
\* so that a stroke can flatten one group beside another it does not touch
InitStrokes ==
    /\ crashed = FALSE
    /\ ctrl_mode = "connect"
    /\ pixel_rate_text = NumText(18, 100)
    /\ gray_viewers = <<NewViewer(NamePool[1], NumMasks + 1, "connect")>>
    /\ worker = DoneWorker(NamePool[1], NumMasks + 1, pixel_rate_text)
    /\ processing_in_progress = FALSE
    /\ status = "Processing completed!"
    /\ save_shown = TRUE
    /\ stop_button = "none"
    /\ gui_queue = <<>>
    /\ csv_active = <<>>
    /\ csv_excluded = <<>>
    /\ csv_written = FALSE
    /\ roi_files = {}
    /\ edits = MaxEdits
    /\ exports = 0
    /\ runs = 1

NextStrokes ==
    \/ SetMode
    \/ ClickMask
    \/ Stroke

SpecStrokes == InitStrokes /\ [][NextStrokes]_vars

\* modes: the application as constructed with a rate in the form; the
\* producer thread hands its images over one by one, each viewer registers
\* with the controller as it is built, and the mode boxes are ticked in
\* between
InitModes ==
    /\ crashed = FALSE
    /\ ctrl_mode = "toggle"
    /\ pixel_rate_text = NumText(18, 100)
    /\ gray_viewers = <<>>
    /\ worker = NoWorker
    /\ processing_in_progress = FALSE
    /\ status = ""
    /\ save_shown = FALSE
    /\ stop_button = "none"
    /\ gui_queue = <<>>
    /\ csv_active = <<>>
    /\ csv_excluded = <<>>
    /\ csv_written = FALSE
    /\ roi_files = {}
    /\ edits = 0
    /\ exports = 0
    /\ runs = 0

NextModes ==
    \/ ProcessClick
    \/ HandleSignal
    \/ W_Validate
    \/ W_LoopHead
    \/ W_Stage
    \/ W_Concat
    \/ W_Emit
    \/ W_Count
    \/ W_Post
    \/ SetMode

SpecModes == InitModes /\ [][NextModes]_vars

\* the rate field between the run and the export: a run has finished, the
\* user connects regions or draws, retypes the rate field and saves
InitRate ==
    /\ crashed = FALSE
    /\ ctrl_mode = "toggle"
    /\ pixel_rate_text = NumText(18, 100)
    /\ gray_viewers = <<NewViewer(NamePool[1], NumMasks, "toggle")>>
    /\ worker = DoneWorker(NamePool[1], NumMasks, pixel_rate_text)
    /\ processing_in_progress = FALSE
    /\ status = "Processing completed!"
    /\ save_shown = TRUE
    /\ stop_button = "none"
    /\ gui_queue = <<>>
    /\ csv_active = <<>>
    /\ csv_excluded = <<>>
    /\ csv_written = FALSE
    /\ roi_files = {}
    /\ edits = MaxEdits - 2
    /\ exports = 0
    /\ runs = 1

NextRate ==
    \/ EditRate
    \/ SetMode
    \/ Stroke
    \/ Draw
    \/ Export

SpecRate == InitRate /\ [][NextRate]_vars

\* one run after another: the application as constructed with a rate in
\* the form, and room for one run more than the bound on runs, so that the
\* Process button can be pressed again while and after a producer runs
InitTwoRuns ==
    /\ crashed = FALSE
    /\ ctrl_mode = "toggle"
    /\ pixel_rate_text = NumText(18, 100)
    /\ gray_viewers = <<>>
    /\ worker = NoWorker
    /\ processing_in_progress = FALSE
    /\ status = ""
    /\ save_shown = FALSE
    /\ stop_button = "none"
    /\ gui_queue = <<>>
    /\ csv_active = <<>>
    /\ csv_excluded = <<>>
    /\ csv_written = FALSE
    /\ roi_files = {}
    /\ edits = 0
    /\ exports = 0
    /\ runs = MaxRuns - 2

NextTwoRuns ==
    \/ ProcessClick
    \/ StopClick
    \/ HandleSignal
    \/ W_Validate
    \/ W_LoopHead
    \/ W_Stage
    \/ W_Concat
    \/ W_Emit
    \/ W_Count
    \/ W_Post

SpecTwoRuns == InitTwoRuns /\ [][NextTwoRuns]_vars

\* saving twice: a run has finished, the user curates and then presses Save
\* two times, with nothing in between
InitRepeat ==
    /\ crashed = FALSE
    /\ ctrl_mode = "toggle"
    /\ pixel_rate_text = NumText(18, 100)
    /\ \E name \in {NamePool[1], NamePool[2]} :
        /\ gray_viewers = <<NewViewer(name, NumMasks, "toggle")>>
        /\ worker = DoneWorker(name, NumMasks, pixel_rate_text)
    /\ processing_in_progress = FALSE
    /\ status = "Processing completed!"
    /\ save_shown = TRUE
    /\ stop_button = "none"
    /\ gui_queue = <<>>
    /\ csv_active = <<>>
    /\ csv_excluded = <<>>
    /\ csv_written = FALSE
    /\ roi_files = {}
    /\ edits = MaxEdits
    /\ exports = MaxExports - 2
    /\ runs = 1

NextRepeat ==
    \/ exports = MaxExports - 2 /\ SetMode
    \/ exports = MaxExports - 2 /\ ClickMask
    \/ exports = MaxExports - 2 /\ Stroke
    \/ exports = MaxExports - 2 /\ Draw
    \/ Export

SpecRepeat == InitRepeat /\ [][NextRepeat]_vars

\* a new run after curation: the run before has finished, regions 1 and 2
\* of its image are connected and region 3 is excluded; the form, the
\* producer thread, the clicks on the regions and the export go on from there
CuratedViewer(name) ==
    LET V0 == NewViewer(name, NumMasks, "connect")
        V1 == Collect(viewer_mouseReleaseEvent(V0, MaskOf(1) \cup MaskOf(2)).v)
        V2 == set_mode(V1, "toggle")
    IN  Collect(mask_mousePressEvent(V2, 3).v)

InitRerun ==
    /\ crashed = FALSE
    /\ ctrl_mode = "toggle"
    /\ pixel_rate_text = NumText(18, 100)
    /\ gray_viewers = <<CuratedViewer(NamePool[1])>>
    /\ worker = DoneWorker(NamePool[1], NumMasks, pixel_rate_text)
    /\ processing_in_progress = FALSE
    /\ status = "Processing completed!"
    /\ save_shown = TRUE
    /\ stop_button = "none"
    /\ gui_queue = <<>>
    /\ csv_active = <<>>
    /\ csv_excluded = <<>>
    /\ csv_written = FALSE
    /\ roi_files = {}
    /\ edits = MaxEdits - 2
    /\ exports = 0
    /\ runs = MaxRuns - 1

NextRerun ==
    \/ ProcessClick
    \/ StopClick
    \/ HandleSignal
    \/ W_Validate
    \/ W_LoopHead
    \/ W_Stage
    \/ W_Concat
    \/ W_Emit
    \/ W_Count
    \/ W_Post
    \/ ClickMask
    \/ Export

SpecRerun == InitRerun /\ [][NextRerun]_vars

\* ------------------------------------------------------------------ claims
Viewers == {gray_viewers[v] : v \in 1..Len(gray_viewers)}

\* the member keys of the i-th group of the list of a viewer
GroupIds(V, i) == V.groups[V.connected_groups[i]].mask_ids

GroupedIds(V) == UNION {GroupIds(V, i) : i \in 1..Len(V.connected_groups)}

GroupIndexConsistent(V) ==
    /\ \A i, j \in 1..Len(V.connected_groups) :
            i # j => GroupIds(V, i) \cap GroupIds(V, j) = {}
    /\ DOMAIN V.mask_id_to_group = GroupedIds(V)
    /\ \A mid \in DOMAIN V.mask_id_to_group :
            \E i \in 1..Len(V.connected_groups) :
                /\ V.connected_groups[i] = V.mask_id_to_group[mid]
                /\ mid \in GroupIds(V, i)

\* C1: in every viewer, every region key is a member of at most one group of
\* connected_groups, and mask_id_to_group is exactly the inverse of the
\* member sets of those groups: it maps the grouped keys, and only them, each
\* to the group of the list that holds it.
C1_GroupIndexConsistent == \A V \in Viewers : GroupIndexConsistent(V)

\* C1, its case: two groups stand side by side in one viewer
C1_Witness == \E V \in Viewers : Len(V.connected_groups) = 2

\* a step of Export that wrote the two tables
ExportWrote == exports' # exports /\ csv_written'

\* the entry of a region in the callback dictionary says it is active
ActiveRegion(V, l) ==
    /\ get_mask_id(V.name, l) \in DOMAIN V.callback_dict
    /\ IsActiveEntry(V.callback_dict[get_mask_id(V.name, l)])

\* the members of the i-th group are all active
ActiveGroup(V, i) == \A l \in GroupItems(V, V.connected_groups[i]) : ActiveRegion(V, l)

HasRow(df, name, label_s) ==
    \E k \in 1..Len(df) : df[k].image_name = name /\ df[k].label.s = label_s

\* C2: the active table an export writes holds no row for an individual key
\* that is a member of an active group.
C2_NoMemberRowOfActiveGroup ==
    [][ExportWrote =>
        \A v \in 1..Len(gray_viewers') :
            LET V == gray_viewers'[v]
            IN  \A i \in 1..Len(V.connected_groups) :
                    ActiveGroup(V, i) =>
                        \A l \in GroupItems(V, V.connected_groups[i]) :
                            ~HasRow(csv_active', V.name, StrInt(l))]_vars

\* C2, its case: a table was written while an active group stood, and holds
\* the row of the group
C2_Witness ==
    /\ csv_written
    /\ \E V \in Viewers : \E i \in 1..Len(V.connected_groups) :
        /\ ActiveGroup(V, i)
        /\ HasRow(csv_active, V.name, MergedLabelStr(GroupItems(V, V.connected_groups[i])))

\* the keys under which the program files the composite of these regions
CompositeKeys(V, items) ==
    {create_merged_key(V, items),
     V.name \o <<"_">> \o MergedLabelStr(items),
     generate_merged_key(V, V.name, {get_mask_id(V.name, l) : l \in items}),
     SplitFirst(V.name) \o <<"_">> \o MergedLabelStr(items)}

\* a step that disconnects the i-th group of viewer v, a pair that the one
\* edit before it connected
PairDisconnectStep(v, i) ==
    /\ edits = MaxEdits - 1 /\ edits' = edits - 1 /\ exports = 0
    /\ v \in 1..Len(gray_viewers) /\ Len(gray_viewers') = Len(gray_viewers)
    /\ i \in 1..Len(gray_viewers[v].connected_groups)
    /\ Cardinality(GroupIds(gray_viewers[v], i)) = 2
    /\ GroupIds(gray_viewers[v], i) \cap DOMAIN gray_viewers'[v].mask_id_to_group = {}

\* the regions are back as they were before the connect: active, with their
\* own masks, in no group, and no record of the composite is left
PairRestored(V, items) ==
    /\ \A l \in items :
        /\ ActiveRegion(V, l) /\ ~V.is_inactive[l] /\ V.opacity[l] = active_opacity
        /\ get_mask_id(V.name, l) \in DOMAIN V.new_mask_dict
        /\ V.new_mask_dict[get_mask_id(V.name, l)].mask = MaskOf(l)
        /\ get_mask_id(V.name, l) \notin DOMAIN V.mask_id_to_group
        /\ get_mask_id(V.name, l) \notin GroupedIds(V)
    /\ CompositeKeys(V, items) \cap DOMAIN V.callback_dict = {}
    /\ CompositeKeys(V, items) \cap DOMAIN V.new_mask_dict = {}

\* C3 as the specification states it: connecting two regions and then
\* immediately disconnecting the pair restores both to their active states
\* and masks of before the merge, leaves neither in any group, and leaves no
\* composite record for the pair in callback_dict or new_mask_dict.
C3_ConnectThenDisconnectRestores ==
    [][\A v \in 1..Len(gray_viewers) : \A i \in 1..Len(gray_viewers[v].connected_groups) :
            PairDisconnectStep(v, i) =>
                PairRestored(gray_viewers'[v],
                             GroupItems(gray_viewers[v], gray_viewers[v].connected_groups[i]))]_vars

\* the keys of a set of regions of a viewer
IdsOf(V, items) == {get_mask_id(V.name, l) : l \in items}

\* the viewers on which a stroke connects or disconnects
ConnectViewers == {V \in Viewers : V.mode = "connect"}

\* what a viewer is after a stroke: disconnected, when the regions hit are in
\* no group; connected, when one group of the list holds them all
StrokeDisconnected(r, hits) ==
    /\ ~r.raised
    /\ IdsOf(r.v, hits) \cap DOMAIN r.v.mask_id_to_group = {}
    /\ IdsOf(r.v, hits) \cap GroupedIds(r.v) = {}

StrokeConnected(r, hits) ==
    /\ ~r.raised
    /\ \E i \in 1..Len(r.v.connected_groups) : IdsOf(r.v, hits) \subseteq GroupIds(r.v, i)
    /\ Cardinality({r.v.mask_id_to_group[mid] : mid \in IdsOf(r.v, hits)}) = 1

\* the groups of two of a viewer
PairGroups(V) == {i \in 1..Len(V.connected_groups) : Cardinality(GroupIds(V, i)) = 2}

\* a region that is active and in no group
FreeActive(V, l) == ~V.is_inactive[l] /\ get_mask_id(V.name, l) \notin DOMAIN V.mask_id_to_group

\* C4: a stroke that touches exactly the two members of a group disconnects
\* the group, and a stroke that touches the two members and a third region,
\* active and in no group, connects the three into one single group.
C4_PairStrokeDisconnectsThirdConnects ==
    \A V \in ConnectViewers : \A path \in SUBSET Blobs(V) :
        LET hits == get_hit_masks_from_path(V, path)
            r == viewer_mouseReleaseEvent(V, path)
        IN  \A i \in PairGroups(V) :
                /\ IdsOf(V, hits) = GroupIds(V, i) => StrokeDisconnected(r, hits)
                /\ \A l \in V.labels :
                      (FreeActive(V, l) /\ IdsOf(V, hits) = GroupIds(V, i) \cup IdsOf(V, {l}))
                        => /\ StrokeConnected(r, hits)
                           /\ \E j \in 1..Len(r.v.connected_groups) :
                                GroupIds(r.v, j) = IdsOf(V, hits)

\* C4, its case: a pair stands grouped next to a free active region, and the
\* stroke over the three leaves one group of three
C4_Witness ==
    \E V \in ConnectViewers : \E i \in PairGroups(V) : \E l \in V.labels :
        /\ FreeActive(V, l)
        /\ \A m \in GroupItems(V, V.connected_groups[i]) : ~V.is_inactive[m]
        /\ LET path == UNION {MaskOf(m) : m \in GroupItems(V, V.connected_groups[i]) \cup {l}}
               r == viewer_mouseReleaseEvent(V, path)
           IN  /\ StrokeConnected(r, get_hit_masks_from_path(V, path))
               /\ Len(r.v.connected_groups) = 1

\* a stroke that hits at least two regions of a viewer
TwoHits(V, path) == Cardinality(get_hit_masks_from_path(V, path)) >= 2

\* C5 as the specification states it: a stroke that hits at least two regions
\* is a disconnect if and only if its hit set is exactly the member set of
\* one group, and a connect for every other hit set.
C5_DisconnectIffExactMemberSet ==
    \A V \in ConnectViewers : \A path \in SUBSET Blobs(V) :
        LET hits == get_hit_masks_from_path(V, path)
            r == viewer_mouseReleaseEvent(V, path)
            exact == \E i \in 1..Len(V.connected_groups) : IdsOf(V, hits) = GroupIds(V, i)
        IN  TwoHits(V, path) =>
                /\ exact => StrokeDisconnected(r, hits)
                /\ ~exact => StrokeConnected(r, hits)

\* C5, amended: a stroke that hits at least two regions is a disconnect of a
\* group if and only if every region it hits is a member of that one group,
\* whether or not it hits all the members; the whole group is then dissolved.
\* For every other hit set the stroke is a connect.
C5_DisconnectIffWithinOneGroup ==
    \A V \in ConnectViewers : \A path \in SUBSET Blobs(V) :
        LET hits == get_hit_masks_from_path(V, path)
            r == viewer_mouseReleaseEvent(V, path)
            within == {i \in 1..Len(V.connected_groups) : IdsOf(V, hits) \subseteq GroupIds(V, i)}
        IN  TwoHits(V, path) =>
                /\ within # {} =>
                     /\ StrokeDisconnected(r, hits)
                     /\ \A i \in within : GroupIds(V, i) \cap DOMAIN r.v.mask_id_to_group = {}
                /\ within = {} => StrokeConnected(r, hits)

\* C5, its case: a stroke hits two of the three members of a group
C5_Witness ==
    \E V \in ConnectViewers : \E path \in SUBSET Blobs(V) :
        \E i \in 1..Len(V.connected_groups) :
            /\ TwoHits(V, path)
            /\ Cardinality(GroupIds(V, i)) = 3
            /\ IdsOf(V, get_hit_masks_from_path(V, path)) \subseteq GroupIds(V, i)
            /\ IdsOf(V, get_hit_masks_from_path(V, path)) # GroupIds(V, i)
            /\ StrokeDisconnected(viewer_mouseReleaseEvent(V, path),
                                  GroupItems(V, V.connected_groups[i]))

\* the viewers on which a click toggles
ToggleViewers == {V \in Viewers : V.mode = "toggle" /\ ~V.connection_mode /\ V.mode_check_enabled}

\* callback_dict[key]["is_active"] of a region
IsActiveOf(V, l) == V.callback_dict[get_mask_id(V.name, l)]["is_active"]

\* the regions grouped with a region, itself included
GroupMates(V, l) ==
    IF get_mask_id(V.name, l) \in DOMAIN V.mask_id_to_group
    THEN GroupItems(V, V.mask_id_to_group[get_mask_id(V.name, l)])
    ELSE {l}

SameActiveState(V, W, l) ==
    /\ W.is_inactive[l] = V.is_inactive[l]
    /\ IsActiveOf(W, l) = IsActiveOf(V, l)

\* C6: two consecutive toggle clicks on a region, grouped or not, leave its
\* is_inactive flag and its is_active entry as they were before the first
\* click, and neither click changes the active state of a region outside its
\* group.
C6_TwoTogglesRestore ==
    \A V \in ToggleViewers : \A l \in V.labels :
        LET r1 == mask_mousePressEvent(V, l)
            r2 == mask_mousePressEvent(r1.v, l)
        IN  ~r1.raised =>
                /\ ~r2.raised
                /\ r1.v.is_inactive[l] # V.is_inactive[l]
                /\ SameActiveState(V, r2.v, l)
                /\ \A m \in V.labels \ GroupMates(V, l) :
                        SameActiveState(V, r1.v, m) /\ SameActiveState(V, r2.v, m)

\* C6, its case: a grouped region is clicked twice next to a region outside
\* its group that is inactive
C6_Witness ==
    \E V \in ToggleViewers : \E l \in V.labels : \E m \in V.labels \ GroupMates(V, l) :
        /\ Cardinality(GroupMates(V, l)) >= 2
        /\ V.is_inactive[m]
        /\ ~mask_mousePressEvent(V, l).raised
        /\ mask_mousePressEvent(V, l).v.is_inactive[l]
        /\ ~mask_mousePressEvent(mask_mousePressEvent(V, l).v, l).v.is_inactive[l]

\* C7 as the specification states it: a toggle click on any member of a group
\* flips the active state of the whole group, and afterwards the is_inactive
\* flag and the is_active entry of every member hold the new state, whichever
\* member is clicked and whatever the name of the image.
C7_GroupToggleReachesEveryMember ==
    \A V \in ToggleViewers : \A l \in V.labels :
        LET r == mask_mousePressEvent(V, l)
            turning_off == ~V.is_inactive[l]
        IN  Cardinality(GroupMates(V, l)) >= 2 =>
                /\ ~r.raised
                /\ \A m \in GroupMates(V, l) :
                        /\ r.v.is_inactive[m] = turning_off
                        /\ IsActiveOf(r.v, m) = ~turning_off

\* no viewer holds a drawn region: a component of min_area or more
NoDrawn(viewers) ==
    \A v \in 1..Len(viewers) : \A k \in 1..Len(viewers[v].canvas) :
        viewers[v].canvas[k] < min_area

\* the rows the specification asks of the active table, as (image, label):
\* the active regions in no group and the active groups
ExpectedRows(viewers) ==
    UNION {LET V == viewers[v]
           IN  {<<V.name, StrInt(l)>> : l \in {m \in V.labels : ActiveRegion(V, m)
                        /\ get_mask_id(V.name, m) \notin DOMAIN V.mask_id_to_group}}
                \cup {<<V.name, MergedLabelStr(GroupItems(V, V.connected_groups[i]))>> :
                        i \in {j \in 1..Len(V.connected_groups) : ActiveGroup(V, j)}}
           : v \in 1..Len(viewers)}

TableKeys(df) == {<<df[k].image_name, df[k].label.s>> : k \in 1..Len(df)}

\* C8: with no drawn regions, the active table an export writes holds exactly
\* one row for every active region that is in no group and exactly one row
\* for every active group, and nothing else.
C8_ActiveTableRows ==
    [][(ExportWrote /\ NoDrawn(gray_viewers')) =>
            /\ TableKeys(csv_active') = ExpectedRows(gray_viewers')
            /\ Len(csv_active') = Cardinality(ExpectedRows(gray_viewers'))]_vars

\* C8, its case: two regions are connected, the others stand alone, and the
\* table written holds the row of the pair and one row for each of the others
C8_Witness ==
    /\ csv_written /\ NoDrawn(gray_viewers)
    /\ \E V \in Viewers : \E i \in PairGroups(V) :
        /\ ActiveGroup(V, i)
        /\ Len(V.connected_groups) = 1
        /\ \A l \in V.labels : ActiveRegion(V, l)
        /\ TableKeys(csv_active) =
                {<<V.name, MergedLabelStr(GroupItems(V, V.connected_groups[i]))>>}
                    \cup {<<V.name, StrInt(l)>> :
                            l \in V.labels \ GroupItems(V, V.connected_groups[i])}
        /\ Len(csv_active) = NumMasks - 1

\* the area and the perimeter, in pixels, of what a row of a table measures:
\* a segmented region, a drawn component or the union of a group
RowPixels(V, r) ==
    IF r.label.ty = "int"
    THEN <<SegArea(ParseInt(r.label.s)), SegPerimeter(ParseInt(r.label.s))>>
    ELSE IF StartsWithDrawn(r.label.s)
    THEN LET k == ParseInt(SubSeq(r.label.s, Len(DrawnPrefix) + 1, Len(r.label.s)))
         IN  <<DrawnBlob(k, V.canvas[k])[3], DrawnBlob(k, V.canvas[k])[4]>>
    ELSE LET i == CHOOSE j \in 1..Len(V.connected_groups) :
                    MergedLabelStr(GroupItems(V, V.connected_groups[j])) = r.label.s
             mask == UNION {MaskOf(l) : l \in GroupItems(V, V.connected_groups[i])}
         IN  <<SumProps(measure_label(mask), "area"), SumProps(measure_label(mask), "perimeter")>>

\* the row holds its pixel values converted once at this rate
ConvertedOnce(V, r, rate) ==
    /\ FracEq(r.area, FracMul(Frac(RowPixels(V, r)[1]), FracMul(rate, rate)))
    /\ FracEq(r.perimeter, FracMul(Frac(RowPixels(V, r)[2]), rate))

TableConvertedOnce(df, viewers, rate) ==
    \A k \in 1..Len(df) :
        \E v \in 1..Len(viewers) :
            viewers[v].name = df[k].image_name /\ ConvertedOnce(viewers[v], df[k], rate)

RejectedRate(t) ==
    \/ t.kind = "empty"
    \/ t.kind = "num" /\ t.n <= 0
    \/ t.kind = "num" /\ FracGt(ParseRate(t), Frac(rate_ceiling))

ErrorStatuses ==
    {"Invalid form input", "Please input pixel-to-micron conversion rate",
     "Invalid pixel-to-micron conversion rate!", "Model loading error"}

\* C10 as the specification states it: a run whose conversion rate is missing,
\* zero or negative, or above the ceiling is rejected before any image is
\* processed and before any export can proceed; it ends with an error status
\* and produces no region records.
C10_BadRateRejected ==
    (worker.exists /\ RejectedRate(worker.pixel_conv_rate)) =>
        /\ worker.pc \in {"start", "done"}
        /\ worker.image_dict = {} /\ worker.all_props_df = <<>> /\ worker.count = 0
        /\ gray_viewers = <<>> /\ ~save_shown
        /\ \A k \in 1..Len(gui_queue) : gui_queue[k].kind # "image_processed"
        /\ (worker.pc = "done" /\ gui_queue = <<>>) => status \in ErrorStatuses

\* ---- C11
SameKey(r, q) == r.image_name = q.image_name /\ r.label = q.label

\* the row of a table that was produced last under the key of row r
LatestOf(df, r) ==
    df[CHOOSE j \in 1..Len(df) :
            /\ SameKey(df[j], r)
            /\ \A k \in (j + 1)..Len(df) : ~SameKey(df[k], r)]

EmittedNames ==
    {gui_queue[i].name : i \in {k \in 1..Len(gui_queue) : gui_queue[k].kind = "image_processed"}}
        \cup {gray_viewers[v].name : v \in 1..Len(gray_viewers)}

RowNames(df) == {df[i].image_name : i \in 1..Len(df)}

\* the producer is between appending the rows of an image and emitting its event
MidCommit == worker.pc \in {"norm", "pixmap", "emit"}

\* C12: whenever the producer is stopped while an image is in flight, either
\* the rows of the image are in all_props_df and its image-ready event was
\* emitted, or neither: once the producer has left the image, the images with
\* rows are exactly the images with an event.
C12_InFlightAllOrNothing ==
    (worker.exists /\ ~MidCommit) => RowNames(worker.all_props_df) = EmittedNames

\* ---- C13
\* the images with an image-ready event, in the order of their events: the
\* registries of the viewer list, then the events still queued
EmittedSeq ==
    [v \in 1..Len(gray_viewers) |-> gray_viewers[v].name]
        \o [i \in 1..Len(SelectSeq(gui_queue, LAMBDA ev : ev.kind = "image_processed")) |->
                SelectSeq(gui_queue, LAMBDA ev : ev.kind = "image_processed")[i].name]

\* the place of an image in the iteration order of the loaded image set
PosOf(name) == CHOOSE i \in 1..Len(worker.images) : worker.images[i] = name

\* C13: the image-ready events follow the iteration order of the loaded
\* images, at most one per image, and the viewer list holds the registries in
\* the order of the events: the names of the registries followed by the
\* names of the queued events climb strictly through the image list, and
\* none is of an image the loop has not reached.
C13_EventsInImageOrder ==
    worker.exists =>
        /\ \A i \in 1..Len(EmittedSeq) :
                /\ \E k \in 1..Len(worker.images) : worker.images[k] = EmittedSeq[i]
                /\ PosOf(EmittedSeq[i]) <= worker.idx
        /\ \A i, j \in 1..Len(EmittedSeq) :
                i < j => PosOf(EmittedSeq[i]) < PosOf(EmittedSeq[j])

\* C13, its case: a run over two images has a registry for the first and the
\* event of the second still queued
C13_Witness ==
    /\ worker.exists /\ Len(worker.images) >= 2
    /\ Len(gray_viewers) = 1
    /\ \E i \in 1..Len(gui_queue) : gui_queue[i].kind = "image_processed"

\* ---- C14
\* the registry holds its image's rows in the table, one per region,
\* converted once at the rate of the run
RowsKept(V, df, rate) ==
    \A l \in V.labels :
        \E k \in 1..Len(df) :
            /\ df[k].image_name = V.name /\ df[k].label = LabelInt(l)
            /\ ConvertedOnce(V, df[k], rate)

\* a step of a stopped producer or of the GUI beside it, within one run:
\* a press of Process starts over and clears the registries
StoppedStep ==
    /\ worker.exists /\ ~worker.active /\ worker'.exists /\ ~worker'.active
    /\ ~ProcessClick

\* the step in which a producer that was stopped while running returns
StoppedReturn ==
    /\ worker.exists /\ ~worker.active /\ worker.pc # "done"
    /\ worker'.exists /\ worker'.pc = "done"

IsPrefixOf(p, q) == Len(p) <= Len(q) /\ SubSeq(q, 1, Len(p)) = p

\* the kinds of the last n signals of a queue
LastKinds(q, n) == [i \in 1..n |-> q[Len(q) - n + i].kind]

StillToEmit(w) == IF w.pc = "emit" THEN 1 ELSE 0

\* C15: once stop() has been called the producer starts no new image, emits
\* at most one more image-ready event, the one of the image in flight, and
\* then terminates. No step of the stopped run enters the first stage of an
\* image, the events emitted plus the one still allowed never grow, and the
\* stopped producer reaches the end of run().
C15_StopEndsProducer ==
    /\ [][StoppedStep =>
            /\ worker'.pc = "pre" => worker.pc = "pre"
            /\ Len(EmittedSeq') + StillToEmit(worker') <= Len(EmittedSeq) + StillToEmit(worker)
         ]_vars
    /\ ((worker.exists /\ ~worker.active) ~> (worker.exists /\ worker.pc = "done"))

\* C15, its case: the producer was stopped after its last reading of the
\* active flag for the image in flight and has emitted the event of it
C15_Witness ==
    /\ worker.exists /\ ~worker.active /\ worker.pc = "count"
    /\ \E i \in 1..Len(gui_queue) :
            gui_queue[i].kind = "image_processed" /\ gui_queue[i].name = CurName

\* ---- C16
\* C16: a region that is a member of a group, active or not, has no row of
\* its own in the active table and none in the excluded table an export
\* writes.
C16_NoMemberRowInEitherTable ==
    [][ExportWrote =>
        \A v \in 1..Len(gray_viewers') :
            LET V == gray_viewers'[v]
            IN  \A i \in 1..Len(V.connected_groups) :
                    \A l \in GroupItems(V, V.connected_groups[i]) :
                        /\ ~HasRow(csv_active', V.name, StrInt(l))
                        /\ ~HasRow(csv_excluded', V.name, StrInt(l))]_vars

\* C16, its case: the tables were written while a group stood whose members
\* are inactive, next to a region that is excluded on its own
C16_Witness ==
    /\ csv_written
    /\ \E V \in Viewers : \E i \in 1..Len(V.connected_groups) :
        /\ \A l \in GroupItems(V, V.connected_groups[i]) : ~ActiveRegion(V, l)
        /\ HasRow(csv_excluded, V.name, MergedLabelStr(GroupItems(V, V.connected_groups[i])))

\* ---- C17
\* the region is in no group
Ungrouped(V, l) == get_mask_id(V.name, l) \notin DOMAIN V.mask_id_to_group

\* the rows of a table under one (image, label)
RowCount(df, name, label_s) ==
    Cardinality({k \in 1..Len(df) : df[k].image_name = name /\ df[k].label.s = label_s})

\* C17: in the tables an export writes, every inactive region that is in no
\* group has exactly one row in the excluded table and none in the active
\* table, every inactive group has exactly one composite row in the excluded
\* table and none in the active table, and no active region has a row in the
\* excluded table.
C17_ExcludedTableRows ==
    [][ExportWrote =>
        \A v \in 1..Len(gray_viewers') :
            LET V == gray_viewers'[v]
            IN  /\ \A l \in V.labels :
                    /\ (Ungrouped(V, l) /\ ~ActiveRegion(V, l)) =>
                            /\ RowCount(csv_excluded', V.name, StrInt(l)) = 1
                            /\ RowCount(csv_active', V.name, StrInt(l)) = 0
                    /\ ActiveRegion(V, l) => RowCount(csv_excluded', V.name, StrInt(l)) = 0
                /\ \A i \in 1..Len(V.connected_groups) :
                    LET g == MergedLabelStr(GroupItems(V, V.connected_groups[i]))
                    IN  ~ActiveGroup(V, i) =>
                            /\ RowCount(csv_excluded', V.name, g) = 1
                            /\ RowCount(csv_active', V.name, g) = 0]_vars

\* C17, its case: the tables were written with a region deactivated on its
\* own and a group deactivated as a whole
C17_Witness ==
    /\ csv_written
    /\ \E V \in Viewers :
        /\ \E l \in V.labels :
            /\ Ungrouped(V, l) /\ ~ActiveRegion(V, l)
            /\ HasRow(csv_excluded, V.name, StrInt(l))
        /\ \E i \in 1..Len(V.connected_groups) :
            /\ ~ActiveGroup(V, i)
            /\ HasRow(csv_excluded, V.name, MergedLabelStr(GroupItems(V, V.connected_groups[i])))

\* ---- C18
\* the output identifier the specification gives a label: label<N> for a
\* plain integer label, label_(...)_merged for a merged one and
\* label_drawn_<N> for a drawn one
SpecIdentifier(label) ==
    IF label.ty = "int" THEN <<"l", "a", "b", "e", "l">> \o label.s
    ELSE IF StartsWith(label.s, DrawnPrefix) THEN <<"l", "a", "b", "e", "l", "_">> \o label.s
    ELSE <<"l", "a", "b", "e", "l", "_">> \o label.s \o <<"_", "m", "e", "r", "g", "e", "d">>

\* C18: the roi_name of every row of a written table renders its label by
\* provenance: the name of the image, an underscore, then label<N> for a
\* plain integer label, label_(...)_merged for a merged label and
\* label_drawn_<N> for a drawn label.
C18_RoiNamesByProvenance ==
    csv_written =>
        \A k \in 1..Len(csv_active) :
            add_roi_name_column(csv_active)[k] =
                splitext_root(csv_active[k].image_name) \o <<"_">>
                    \o SpecIdentifier(csv_active[k].label) \o <<".", "r", "o", "i">>

\* the mask of a record can be resolved under its key and is not empty
Resolves(viewers, key) ==
    \E i \in 1..Len(viewers) :
        /\ key \in DOMAIN viewers[i].new_mask_dict
        /\ \A j \in 1..(i - 1) : key \notin DOMAIN viewers[j].new_mask_dict
        /\ SumOver(viewers[i].new_mask_dict[key].mask, 3) > 0

\* the outline file of a record, in the archive of its image
OutlineOf(r) == <<zip_name(r.image_name), generate_roi_filename(r.image_name, r.label.s)>>

ResolvedOutlines(viewers, df) ==
    {OutlineOf(df[i]) : i \in {j \in 1..Len(df) : Resolves(viewers, RowKey(df[j]))}}

\* the integration of save_rois_to_zip, run after save_props_to_csv, raises
RoiIntegrationRaises ==
    integrate_new_objects(
        save_props_to_csv(gray_viewers, worker.all_props_df, worker.image_dict,
                          pixel_rate_text, TRUE).viewers,
        worker.all_props_df, worker.image_dict,
        ActiveKeys(save_props_to_csv(gray_viewers, worker.all_props_df, worker.image_dict,
                                     pixel_rate_text, TRUE).viewers),
        {}, pixel_rate_text, TRUE).raised

\* C19: during outline export a record whose mask cannot be resolved under
\* its key, or resolves to an empty mask, is dropped from outline generation
\* without aborting the export: an export that wrote the tables aborts only
\* where the integration of the new objects raises, never in the mask
\* lookup; the outlines written are those of all records whose mask
\* resolves; and the row of every active region outside a group is in the
\* active table whether or not its mask resolves.
C19_UnresolvedMaskDropped ==
    [][(exports' # exports /\ csv_written') =>
         /\ crashed' => RoiIntegrationRaises
         /\ ~crashed' =>
              roi_files' \in {roi_files, ResolvedOutlines(gray_viewers', csv_active')}
         /\ \A v \in 1..Len(gray_viewers) : \A l \in gray_viewers[v].labels :
              (/\ IsActiveEntry(gray_viewers[v].callback_dict[get_mask_id(gray_viewers[v].name, l)])
               /\ Ungrouped(gray_viewers[v], l))
              => RowCount(csv_active', gray_viewers[v].name, StrInt(l)) = 1]_vars

\* an export wrote outlines, and the active table holds a record whose mask
\* does not resolve
C19_Witness ==
    /\ csv_written /\ ~crashed
    /\ roi_files # {}
    /\ \E i \in 1..Len(csv_active) :
        /\ ~Resolves(gray_viewers, RowKey(csv_active[i]))
        /\ OutlineOf(csv_active[i]) \notin roi_files

\* the row the batch recorded for region l of the image of V
MemberRow(V, l) ==
    worker.all_props_df[CHOOSE k \in 1..Len(worker.all_props_df) :
        /\ worker.all_props_df[k].image_name = V.name
        /\ worker.all_props_df[k].label = LabelInt(l)]

\* (a1*v1 + a2*v2)/(a1 + a2) for areas in pixels and values as fractions
WeightedAverage(a1, v1, a2, v2) ==
    <<a1 * v1[1] * v2[2] + a2 * v2[1] * v1[2], v1[2] * v2[2] * (a1 + a2)>>

\* the composite rows of a group of V in the two tables
CompositeRows(V, items, active_df, excluded_df) ==
    {r \in {(active_df \o excluded_df)[k] : k \in 1..(Len(active_df) + Len(excluded_df))} :
        r.image_name = V.name /\ r.label.s = MergedLabelStr(items)}

\* C20: for the weighted-average field extent, the composite record of a
\* group of two member regions with areas a1, a2 and per-region values v1,
\* v2 has the value (a1*v1 + a2*v2)/(a1 + a2), whether or not the two
\* regions touch: it holds of every composite row of a two-member group in
\* the tables an export writes.
C20_WeightedAverageOfTwo ==
    [][ExportWrote =>
         \A v \in 1..Len(gray_viewers) : \A j \in 1..Len(gray_viewers[v].connected_groups) :
            \A l1, l2 \in gray_viewers[v].labels :
                (l1 < l2 /\ GroupItems(gray_viewers[v], gray_viewers[v].connected_groups[j]) = {l1, l2})
                => \A r \in CompositeRows(gray_viewers[v], {l1, l2}, csv_active', csv_excluded') :
                      Reduced(r.extent) =
                        Reduced(WeightedAverage(SegArea(l1), MemberRow(gray_viewers[v], l1).extent,
                                                SegArea(l2), MemberRow(gray_viewers[v], l2).extent))]_vars

\* the key of component k of the drawing of V
DrawnKey(V, k) == V.name \o <<"_">> \o DrawnPrefix \o StrInt(k)

\* what the two dictionaries of V hold under a key
EntriesUnder(V, key) ==
    <<IF key \in DOMAIN V.new_mask_dict THEN <<V.new_mask_dict[key]>> ELSE <<>>,
      IF key \in DOMAIN V.callback_dict THEN <<V.callback_dict[key]>> ELSE <<>>>>

DrawnRowCount(df, V, k) == RowCount(df, V.name, DrawnPrefix \o StrInt(k))

\* C21: a filled drawn component whose pixel area is below the minimum-area
\* threshold never produces a region: an export writes nothing under its key
\* into new_mask_dict or callback_dict, and the tables it writes hold no row
\* for it.
C21_SmallComponentNoRegion ==
    [][exports' # exports =>
         \A v \in 1..Len(gray_viewers) : \A k \in 1..Len(gray_viewers[v].canvas) :
            gray_viewers[v].canvas[k] < min_area =>
               /\ EntriesUnder(gray_viewers'[v], DrawnKey(gray_viewers[v], k))
                    = EntriesUnder(gray_viewers[v], DrawnKey(gray_viewers[v], k))
               /\ csv_written' =>
                    /\ DrawnRowCount(csv_active', gray_viewers[v], k) = 0
                    /\ DrawnRowCount(csv_excluded', gray_viewers[v], k) = 0]_vars

\* C21, its case: an export wrote the tables for a drawing with a component
\* below the threshold, which has no entry, and one at the threshold, which
\* has one
C21_Witness ==
    /\ csv_written /\ ~crashed
    /\ \E V \in Viewers : \E k, j \in 1..Len(V.canvas) :
        /\ V.canvas[k] < min_area
        /\ EntriesUnder(V, DrawnKey(V, k)) = <<<<>>, <<>>>>
        /\ V.canvas[j] >= min_area
        /\ DrawnKey(V, j) \in DOMAIN V.new_mask_dict

\* component k of the drawing of V is a drawn region of W: it has its own
\* non-empty mask and exactly one row in the table
DrawnRegion(W, df, V, k) ==
    /\ DrawnKey(V, k) \in DOMAIN W.new_mask_dict
    /\ W.new_mask_dict[DrawnKey(V, k)].mask = {DrawnBlob(k, V.canvas[k])}
    /\ DrawnKey(V, k) \in DOMAIN W.callback_dict
    /\ DrawnRowCount(df, V, k) = 1

\* C22: at export, every connected component of the filled drawing that
\* passes the minimum-area filter yields exactly one drawn region with its
\* own non-empty mask and exactly one row in the active table; two disjoint
\* surviving components in one image yield two regions and two rows.
C22_EverySurvivingComponentOneRegion ==
    [][(ExportWrote /\ ~crashed') =>
         \A v \in 1..Len(gray_viewers) : \A k \in 1..Len(gray_viewers[v].canvas) :
            gray_viewers[v].canvas[k] >= min_area =>
               DrawnRegion(gray_viewers'[v], csv_active', gray_viewers[v], k)]_vars

\* the groups of the list of V, as records and in list order
GroupList(V) == [i \in 1..Len(V.connected_groups) |-> V.groups[V.connected_groups[i]]]

\* the places in the list of V of the groups with a member among the ids
TouchedGroups(V, ids) == {i \in 1..Len(V.connected_groups) : GroupIds(V, i) \cap ids # {}}

\* the groups of V are sets of regions, and no region is in two of them
GroupsFlat(V) ==
    /\ \A i \in 1..Len(V.connected_groups) : GroupIds(V, i) \subseteq IdsOf(V, V.labels)
    /\ \A i, j \in 1..Len(V.connected_groups) :
            i # j => GroupIds(V, i) \cap GroupIds(V, j) = {}

\* the outcome r of a connect over the hit ids on V: one new group at the end
\* of the list holds the hit ids and the members of every touched group, the
\* touched groups are gone and the others stand as they were
ConnectFlattens(V, r, ids) ==
    LET Untouched(group) == group.mask_ids \cap ids = {}
        n == Len(r.v.connected_groups)
    IN  /\ ~r.raised
        /\ n = Len(V.connected_groups) - Cardinality(TouchedGroups(V, ids)) + 1
        /\ GroupIds(r.v, n) = ids \cup UNION {GroupIds(V, i) : i \in TouchedGroups(V, ids)}
        /\ SubSeq(GroupList(r.v), 1, n - 1) = SelectSeq(GroupList(V), Untouched)
        /\ GroupsFlat(r.v)

\* C23: a connect whose hit set touches members of existing groups produces
\* exactly one new group whose member set is the union of the hit keys and
\* all members of every touched group; every touched group is removed from
\* connected_groups, untouched groups are left as they were, and no group is
\* nested in another.
C23_ConnectFlattensTouchedGroups ==
    \A V \in ConnectViewers : \A path \in SUBSET Blobs(V) :
        LET hits == get_hit_masks_from_path(V, path)
            within == \E i \in 1..Len(V.connected_groups) : IdsOf(V, hits) \subseteq GroupIds(V, i)
        IN  (TwoHits(V, path) /\ ~within /\ TouchedGroups(V, IdsOf(V, hits)) # {})
                => ConnectFlattens(V, viewer_mouseReleaseEvent(V, path), IdsOf(V, hits))

\* C23, its case: two groups and a free region; a stroke over a member of the
\* first group and the free region flattens the first group into a group of
\* three at the end of the list and leaves the second group in front of it
C23_Witness ==
    \E V \in ConnectViewers : \E l \in V.labels :
        /\ Len(V.connected_groups) = 2
        /\ FreeActive(V, l)
        /\ \E m \in GroupItems(V, V.connected_groups[1]) :
            /\ ~V.is_inactive[m]
            /\ LET r == viewer_mouseReleaseEvent(V, MaskOf(m) \cup MaskOf(l))
               IN  /\ ConnectFlattens(V, r, IdsOf(V, {m, l}))
                   /\ Len(r.v.connected_groups) = 2
                   /\ GroupIds(r.v, 1) = GroupIds(V, 2)
                   /\ Cardinality(GroupIds(r.v, 2)) = 3

\* C24: a stroke that hits fewer than two active regions is a no-op:
\* connected_groups, mask_id_to_group, every active flag, callback_dict,
\* new_mask_dict and pre_merge_callback_state are all left unchanged, and
\* the stroke raises nothing.
C24_StrokeBelowTwoHitsNoOp ==
    \A V \in Viewers : \A path \in SUBSET Blobs(V) :
        LET r == viewer_mouseReleaseEvent(V, path)
        IN  ~TwoHits(V, path) =>
                /\ ~r.raised
                /\ r.v.connected_groups = V.connected_groups
                /\ GroupList(r.v) = GroupList(V)
                /\ r.v.mask_id_to_group = V.mask_id_to_group
                /\ r.v.is_inactive = V.is_inactive
                /\ r.v.callback_dict = V.callback_dict
                /\ r.v.new_mask_dict = V.new_mask_dict
                /\ r.v.pre_merge_callback_state = V.pre_merge_callback_state

\* C24, its case: in connect mode a path runs over one active region that is
\* a member of a group and over one inactive region, and leaves the viewer
\* as it was
C24_Witness ==
    \E V \in ConnectViewers : \E l, m \in V.labels :
        /\ ~V.is_inactive[l] /\ ~Ungrouped(V, l)
        /\ V.is_inactive[m]
        /\ get_hit_masks_from_path(V, MaskOf(l) \cup MaskOf(m)) = {l}
        /\ viewer_mouseReleaseEvent(V, MaskOf(l) \cup MaskOf(m)) = [v |-> V, raised |-> FALSE]

\* the groups of V that hold the region, as records
GroupsWith(V, l) ==
    {GroupList(V)[i] : i \in {j \in 1..Len(V.connected_groups) : get_mask_id(V.name, l) \in GroupIds(V, j)}}

\* C25: an inactive region is never hit by a stroke: whatever the path, a
\* region that is inactive when the stroke completes is not in the hit set,
\* the stroke does what the same path without the region's pixels does (so
\* the region has no part in the choice between connect and disconnect),
\* and every group that holds the region afterwards held it before.
C25_InactiveRegionNeverHit ==
    \A V \in ConnectViewers : \A path \in SUBSET Blobs(V) : \A m \in V.labels :
        LET r == viewer_mouseReleaseEvent(V, path)
        IN  V.is_inactive[m] =>
                /\ m \notin get_hit_masks_from_path(V, path)
                /\ r = viewer_mouseReleaseEvent(V, path \ MaskOf(m))
                /\ GroupsWith(r.v, m) \subseteq GroupsWith(V, m)
                /\ r.v.is_inactive[m]

\* C25, its case: a path over two active regions and an inactive one
\* connects the two active regions and leaves the inactive one in no group
C25_Witness ==
    \E V \in ConnectViewers : \E l1, l2, m \in V.labels :
        LET path == MaskOf(l1) \cup MaskOf(l2) \cup MaskOf(m)
            r == viewer_mouseReleaseEvent(V, path)
        IN  /\ l1 # l2 /\ V.is_inactive[m]
            /\ get_hit_masks_from_path(V, path) = {l1, l2}
            /\ StrokeConnected(r, {l1, l2})
            /\ Ungrouped(r.v, m)

\* the key each operation computes for the i-th group of the list of V:
\* create_merged_mask on connect, toggle_group on a group toggle,
\* get_merged_key_from_group on disconnect, process_merged_masks at export
GroupKeyOnConnect(V, i) == create_merged_key(V, GroupItems(V, V.connected_groups[i]))

GroupKeyOnToggle(V, i) == generate_merged_key(V, V.name, GroupIds(V, i))

GroupKeyOnDisconnect(V, i) == get_merged_key_from_group(V, GroupList(V)[i])

GroupKeyAtExport(V, i) == V.name \o <<"_">> \o MergedLabelStr(GroupItems(V, V.connected_groups[i]))

\* C26: a group's composite record is keyed by one canonical key built from
\* the image name and the sorted member labels: registration on connect,
\* update on group toggle, removal on disconnect and registration at export
\* compute the same key for the same group, and so the stroke that
\* disconnects a group leaves no record under the key its connect wrote.
C26_OneCanonicalGroupKey ==
    \A V \in Viewers : \A i \in 1..Len(V.connected_groups) :
        /\ GroupKeyOnConnect(V, i) = GroupKeyOnDisconnect(V, i)
        /\ GroupKeyOnConnect(V, i) = GroupKeyOnToggle(V, i)
        /\ GroupKeyOnConnect(V, i) = GroupKeyAtExport(V, i)
        /\ LET r == disconnect_group(V, V.connected_groups[i])
           IN  /\ GroupKeyOnConnect(V, i) \notin DOMAIN r.v.callback_dict
               /\ GroupKeyOnConnect(V, i) \notin DOMAIN r.v.new_mask_dict

\* C27: in every reachable state each group's stored mask is the union of
\* the masks of all its current members, the members pulled in by
\* flattening included.
C27_GroupMaskIsUnionOfMembers ==
    \A V \in Viewers : \A i \in 1..Len(V.connected_groups) :
        GroupList(V)[i].mask = MergedMaskOf(GroupItems(V, V.connected_groups[i]))

\* C27 for the groups whose members were all hit by the stroke that made them
C27_HitMembersOnly ==
    \A V \in ConnectViewers : \A path \in SUBSET Blobs(V) :
        LET hits == get_hit_masks_from_path(V, path)
            r == viewer_mouseReleaseEvent(V, path)
            n == Len(r.v.connected_groups)
        IN  (TwoHits(V, path) /\ StrokeConnected(r, hits)) =>
                /\ MergedMaskOf(hits) = GroupList(r.v)[n].mask
                /\ (GroupIds(r.v, n) = IdsOf(V, hits) =>
                        GroupList(r.v)[n].mask = MergedMaskOf(GroupItems(r.v, r.v.connected_groups[n])))

\* C28: every group in connected_groups has at least two members in every
\* reachable state, and so has every group a stroke leaves registered,
\* whether the stroke connects or disconnects.
C28_GroupsHaveTwoMembers ==
    \A V \in Viewers :
        /\ \A i \in 1..Len(V.connected_groups) : Cardinality(GroupIds(V, i)) >= 2
        /\ \A path \in SUBSET Blobs(V) :
            LET r == viewer_mouseReleaseEvent(V, path)
            IN  \A i \in 1..Len(r.v.connected_groups) : Cardinality(GroupIds(r.v, i)) >= 2

\* C28, its case: a viewer holds two groups, and a stroke over the members
\* of the first disconnects it and leaves the other, of two members or more
C28_Witness ==
    \E V \in ConnectViewers :
        /\ Len(V.connected_groups) = 2
        /\ LET hits == GroupItems(V, V.connected_groups[1])
               r == viewer_mouseReleaseEvent(V, MergedMaskOf(hits))
           IN  /\ StrokeDisconnected(r, hits)
               /\ Len(r.v.connected_groups) = 1
               /\ Cardinality(GroupIds(r.v, 1)) >= 2

\* component k of the drawing of V is registered in W with a mask of no
\* pixels: the aggregator is given a mask with no constituent
EmptyDrawn(W, V, k) ==
    /\ V.canvas[k] >= min_area
    /\ DrawnKey(V, k) \in DOMAIN W.new_mask_dict
    /\ W.new_mask_dict[DrawnKey(V, k)].mask = {}

\* the rows of the drawn components that are registered with pixels
DrawnRows(viewers) ==
    UNION {{<<viewers[v].name, DrawnPrefix \o StrInt(k)>> :
                k \in {j \in 1..Len(viewers[v].canvas) :
                        /\ viewers[v].canvas[j] >= min_area
                        /\ ~EmptyDrawn(viewers[v], viewers[v], j)}}
           : v \in 1..Len(viewers)}

\* C29: the aggregator produces no record for a mask with zero constituents
\* or zero total area, and the export that measured such a mask writes no
\* row for that object, does not fail, and still writes every other row:
\* one for every active region in no group, for every active group and for
\* every drawn component that has pixels.
C29_EmptyMaskNoRowOthersEmitted ==
    [][exports' # exports =>
         \A v \in 1..Len(gray_viewers) : \A k \in 1..Len(gray_viewers[v].canvas) :
            EmptyDrawn(gray_viewers'[v], gray_viewers[v], k) =>
               /\ compute_region_properties(gray_viewers'[v].new_mask_dict[DrawnKey(gray_viewers[v], k)].mask) = <<>>
               /\ ~crashed'
               /\ csv_written' =>
                    /\ DrawnRowCount(csv_active', gray_viewers[v], k) = 0
                    /\ DrawnRowCount(csv_excluded', gray_viewers[v], k) = 0
                    /\ TableKeys(csv_active') = ExpectedRows(gray_viewers') \cup DrawnRows(gray_viewers')
                    /\ Len(csv_active') = Cardinality(TableKeys(csv_active'))]_vars

\* C29, its case: an export wrote the tables for a drawing whose second
\* component was measured as a mask of no pixels; it has no row, and the
\* first component and a segmented region have theirs
C29_Witness ==
    /\ csv_written /\ ~crashed
    /\ \E V \in Viewers : \E k, j \in 1..Len(V.canvas) : \E l \in V.labels :
        /\ EmptyDrawn(V, V, k)
        /\ DrawnRowCount(csv_active, V, k) = 0
        /\ j # k /\ DrawnRowCount(csv_active, V, j) = 1
        /\ HasRow(csv_active, V.name, StrInt(l))

\* the viewer is as set_togglable_masks built it: no group, every region
\* active, no edit
AsBuilt(V) == V = NewViewer(V.name, Cardinality(V.labels), V.mode)

\* the rows of the excluded table are regions of these viewers that are not
\* active
ExcludedOf(df, viewers) ==
    \A k \in 1..Len(df) : \E v \in 1..Len(viewers) : \E l \in viewers[v].labels :
        /\ df[k].image_name = viewers[v].name
        /\ df[k].label.s = StrInt(l)
        /\ ~ActiveRegion(viewers[v], l)

\* C30: when a new processing run is accepted, the registries of the
\* previous run are reset: connected_groups, mask_id_to_group and
\* new_mask_dict of every previous viewer are emptied, the viewer list is
\* cleared and the producer starts with no table; every viewer that enters
\* the list afterwards is as built; and an export of the new run writes rows
\* for the regions of the new viewers alone, by their own flags: with the
\* new viewers as built, the active table holds one row for every region of
\* the new viewers and the excluded table is empty.
C30_NewRunResetsRegistries ==
    [][/\ runs' # runs =>
            /\ \A i \in 1..Len(gray_viewers) :
                LET W == reset_viewers(gray_viewers).old[i]
                IN  /\ W.connected_groups = <<>>
                    /\ W.mask_id_to_group = EmptyDict
                    /\ W.new_mask_dict = EmptyDict
            /\ gray_viewers' = <<>>
            /\ worker'.all_props_df = <<>> /\ worker'.image_dict = {} /\ ~worker'.has_df
       /\ (runs = MaxRuns /\ Len(gray_viewers') > Len(gray_viewers)) =>
            AsBuilt(gray_viewers'[Len(gray_viewers')])
       /\ (runs = MaxRuns /\ ExportWrote) =>
            /\ TableKeys(csv_active') \subseteq ExpectedRows(gray_viewers')
            /\ ExcludedOf(csv_excluded', gray_viewers')
            /\ (\A V \in Viewers : AsBuilt(V)) =>
                    /\ TableKeys(csv_active') = UNION {{<<V.name, StrInt(l)>> : l \in V.labels} : V \in Viewers}
                    /\ csv_excluded' = <<>>]_vars

\* C30, its case: the run before held a group and an excluded region of the
\* image; a new run over the same image was accepted and finished, and its
\* export wrote a row for every region of the image, none for the group,
\* and excluded nothing
C30_Witness ==
    /\ runs = MaxRuns /\ csv_written /\ ~crashed
    /\ \E V \in Viewers :
        /\ V.name = NamePool[1]
        /\ V.connected_groups = <<>>
        /\ TableKeys(csv_active) = {<<V.name, StrInt(l)>> : l \in V.labels}
        /\ 3 \in V.labels
    /\ csv_excluded = <<>>

\* C31: every registered viewer's mode equals the controller's current
\* mode, whatever the order of registrations and mode changes, and its
\* connection flag says whether that mode is "connect"; a viewer registered
\* after the last mode change holds that mode too.
C31_ViewersFollowController ==
    \A V \in Viewers :
        /\ V.mode = ctrl_mode
        /\ V.connection_mode = (ctrl_mode = "connect")
        /\ V.mode_check_enabled

\* C31, its case: two viewers are registered, the mode was changed after
\* the first was built, and both hold the controller's mode, which is not
\* the mode of construction
C31_Witness ==
    /\ Len(gray_viewers) = 2
    /\ ctrl_mode = "draw"
    /\ gray_viewers[1].mode = "draw" /\ gray_viewers[2].mode = "draw"
    /\ gui_queue = <<>>

\* C32: in every reachable state all members of a group share the same
\* active state: no group holds one active and one inactive member, in the
\* flags of the items, in their opacity or in their callback entries.
C32_GroupMembersShareState ==
    \A V \in Viewers : \A i \in 1..Len(V.connected_groups) :
        \A l, m \in GroupItems(V, V.connected_groups[i]) :
            /\ V.is_inactive[l] = V.is_inactive[m]
            /\ V.opacity[l] = V.opacity[m]
            /\ ActiveRegion(V, l) = ActiveRegion(V, m)

\* C32, its case: a group of three, made by a stroke that pulled a group of
\* two in, was switched off by a click, and all three members are inactive
C32_Witness ==
    \E V \in Viewers : \E i \in 1..Len(V.connected_groups) :
        /\ Cardinality(GroupIds(V, i)) = 3
        /\ \A l \in GroupItems(V, V.connected_groups[i]) :
                V.is_inactive[l] /\ ~ActiveRegion(V, l)

\* C33: in every reachable state the export bookkeeping agrees with the
\* displayed state: for every mask item, the entry of callback_dict under
\* its key says is_active exactly when the item's is_inactive flag is
\* false, after any sequence of toggles, connects and disconnects.
C33_CallbackAgreesWithDisplay ==
    \A V \in Viewers : \A l \in V.labels :
        ActiveRegion(V, l) <=> ~V.is_inactive[l]

\* C33, its case: a region was restored by a disconnect from the state
\* recorded before its connect, another region was switched off by a click,
\* and both agree with their entries
C33_Witness ==
    \E V \in Viewers : \E l, m \in V.labels :
        /\ get_mask_id(V.name, l) \in DOMAIN V.pre_merge_callback_state
        /\ Ungrouped(V, l)
        /\ V.new_mask_dict[get_mask_id(V.name, l)].source = "disconnect"
        /\ ~V.is_inactive[l] /\ ActiveRegion(V, l)
        /\ V.is_inactive[m] /\ ~ActiveRegion(V, m)

\* C34: all rows of one export are converted with one and the same pixel
\* rate: the tables an export writes hold every row, original, merged,
\* drawn or excluded, converted once at the rate that the run validated and
\* applied to the original rows, whatever the rate field holds by then.
C34_OneRatePerExport ==
    [][ExportWrote =>
         \E t \in RateTexts :
            /\ RateParses(t)
            /\ ParseRate(t) = ParseRate(worker.pixel_conv_rate)
            /\ TableConvertedOnce(csv_active', gray_viewers', ParseRate(t))
            /\ TableConvertedOnce(csv_excluded', gray_viewers', ParseRate(t))]_vars

\* C34 while the rate field still holds the text the run was started with
C34_FieldUntouched ==
    [][(ExportWrote /\ pixel_rate_text = worker.pixel_conv_rate) =>
         /\ TableConvertedOnce(csv_active', gray_viewers', ParseRate(worker.pixel_conv_rate))
         /\ TableConvertedOnce(csv_excluded', gray_viewers', ParseRate(pixel_rate_text))]_vars

\* the producer has left its image loop and every row of all_props_df holds
\* its pixel values converted once at the rate of the run
LoopEndedAndConverted(w) ==
    /\ w.exists /\ w.pc = "done" /\ w.has_df
    /\ \A k \in 1..Len(w.all_props_df) :
        LET r == w.all_props_df[k]
            rate == ParseRate(w.pixel_conv_rate)
        IN  /\ r.label.ty = "int"
            /\ FracEq(r.area, FracMul(Frac(SegArea(ParseInt(r.label.s))), FracMul(rate, rate)))
            /\ FracEq(r.perimeter, FracMul(Frac(SegPerimeter(ParseInt(r.label.s))), rate))

\* C35: the save control is offered only after the producer's image loop
\* has ended and all_props_df has been unit-converted: whenever the signal
\* show_save_all is queued or the control is shown the producer is done and
\* the table is converted, and so it is at every export.
C35_SaveOnlyAfterConversion ==
    [][/\ (save_shown' \/ \E k \in 1..Len(gui_queue') : gui_queue'[k].kind = "show_save_all")
            => LoopEndedAndConverted(worker')
       /\ exports' # exports => LoopEndedAndConverted(worker)]_vars

\* C35, its case: a run over two images was stopped during the second, the
\* rows of both are in the table, converted, and an export has read them
C35_Witness ==
    /\ save_shown /\ exports > 0 /\ csv_written
    /\ LoopEndedAndConverted(worker)
    /\ ~worker.active
    /\ Len(worker.all_props_df) >= 2
    /\ ParseRate(worker.pixel_conv_rate) # <<1, 1>>

\* the producer of the state is the same thread in the next state
SameProducer ==
    /\ worker.exists /\ worker'.exists
    /\ worker'.images = worker.images
    /\ worker'.pixel_conv_rate = worker.pixel_conv_rate
    /\ worker'.idx >= worker.idx
    /\ worker'.count >= worker.count

\* C36: at most one producer runs at any time: a Process request is accepted
\* only while processing_in_progress is false and no producer is running;
\* while it is true no step starts a run, replaces the worker or clears
\* the registries; and it stays true from the accepted request until the
\* finished_processing of that worker is handled.
C36_OneProducerAtATime ==
    [][/\ runs' # runs =>
            /\ ~processing_in_progress /\ processing_in_progress'
            /\ worker.exists => worker.pc = "done"
       /\ processing_in_progress =>
            /\ runs' = runs
            /\ SameProducer
            /\ \/ gray_viewers' = gray_viewers
               \/ SubSeq(gray_viewers', 1, Len(gray_viewers)) = gray_viewers
       /\ (processing_in_progress /\ ~processing_in_progress') =>
            /\ worker.pc = "done"
            /\ gui_queue # <<>> /\ Head(gui_queue).kind = "finished_processing"]_vars

\* C36, its case: a second run was accepted after the first had finished
\* and its finished_processing had been handled, and it is in its image
\* loop with a registry of its own on screen
C36_Witness ==
    /\ runs = MaxRuns
    /\ processing_in_progress
    /\ worker.exists /\ worker.pc \notin {"start", "done"}
    /\ worker.idx = 2
    /\ Len(gray_viewers) = 1

\* the finished_processing events that are queued and not yet handled
FinishedQueued ==
    Cardinality({k \in 1..Len(gui_queue) : gui_queue[k].kind = "finished_processing"})

\* a producer that runs has not emitted finished_processing, and a producer
\* that has returned has emitted it once: it is queued while
\* processing_in_progress is set and gone once it was handled
FinishedOnce ==
    worker.exists =>
        /\ worker.pc # "done" => (FinishedQueued = 0 /\ processing_in_progress)
        /\ worker.pc = "done" => FinishedQueued = (IF processing_in_progress THEN 1 ELSE 0)

LeftAsWas(V, r) == r = [v |-> V, raised |-> FALSE]

\* C38: edits are gated by the viewer mode: a click on a mask changes
\* nothing unless the mode is "toggle", and a completed stroke changes
\* nothing unless the mode is "connect"; in "draw", "erase" or no mode
\* neither the active flags nor the groups nor the membership index change.
C38_EditsGatedByMode ==
    \A V \in Viewers :
        /\ V.mode # "toggle" =>
                \A l \in V.labels : LeftAsWas(V, mask_mousePressEvent(V, l))
        /\ V.mode # "connect" =>
                \A path \in SUBSET Blobs(V) : LeftAsWas(V, viewer_mouseReleaseEvent(V, path))

\* C38, its case: in draw mode a viewer holds a group and two free active
\* regions; a click on a member and a stroke over the free regions leave it
\* as it was, though the same click in toggle mode switches the group off
\* and the same stroke in connect mode connects the two
C38_Witness ==
    \E V \in Viewers : \E l, m, g \in V.labels :
        /\ V.mode = "draw"
        /\ l # m /\ FreeActive(V, l) /\ FreeActive(V, m)
        /\ ~Ungrouped(V, g) /\ ~V.is_inactive[g]
        /\ LeftAsWas(V, mask_mousePressEvent(V, g))
        /\ LeftAsWas(V, viewer_mouseReleaseEvent(V, MaskOf(l) \cup MaskOf(m)))
        /\ mask_mousePressEvent(set_mode(V, "toggle"), g).v.is_inactive[g]
        /\ StrokeConnected(viewer_mouseReleaseEvent(set_mode(V, "connect"),
                                                   MaskOf(l) \cup MaskOf(m)), {l, m})

\* what an export must leave alone in the registry of a viewer
FlagsAndGroups(V) ==
    <<V.is_inactive, V.opacity, GroupList(V), V.mask_id_to_group,
      [l \in V.labels |-> ActiveRegion(V, l)]>>

\* C39: export is repeatable: an export that follows an export with no edit
\* in between writes the same active and excluded tables as the one before,
\* and no export changes a region's active flag or a group's membership,
\* even though it writes composite and drawn entries into callback_dict and
\* new_mask_dict.
C39_ExportRepeatable ==
    [][exports' # exports =>
         /\ Len(gray_viewers') = Len(gray_viewers)
         /\ \A v \in 1..Len(gray_viewers) :
                FlagsAndGroups(gray_viewers'[v]) = FlagsAndGroups(gray_viewers[v])
         /\ (exports = MaxExports - 1 /\ csv_written /\ csv_written') =>
                /\ csv_active' = csv_active
                /\ csv_excluded' = csv_excluded]_vars

C39_Witness ==
    /\ exports = MaxExports
    /\ csv_written
    /\ ~crashed
    /\ \E V \in Viewers :
        /\ DrawnRowCount(csv_active, V, 1) > 0
        /\ V.connected_groups # <<>>
        /\ \E k \in DOMAIN V.callback_dict : V.callback_dict[k].merged
        /\ \E l \in V.labels : ~ActiveRegion(V, l)

\* the flag restore_individual_mask reads for a region: the "is_active" of
\* its snapshot, True when there is no snapshot or an empty one
Recorded(V, l) ==
    LET key == get_mask_id(V.name, l)
    IN  IF key \in DOMAIN V.pre_merge_callback_state
           /\ V.pre_merge_callback_state[key] # EmptyDict
        THEN V.pre_merge_callback_state[key]["is_active"]
        ELSE TRUE

\* C40: after every disconnect each former member's active flag equals the
\* flag recorded for it in pre_merge_callback_state (true if nothing was
\* recorded), and that recorded flag is the member's active state
\* immediately before the connect that most recently placed it in a group:
\* a step that takes a region out of its group leaves it with the recorded
\* flag, a step that puts a free region into a group leaves the record equal
\* to the region's flag before the step, and no other step changes the
\* record.
C40_DisconnectRestoresRecorded ==
    [][Len(gray_viewers') = Len(gray_viewers) =>
         \A v \in 1..Len(gray_viewers) :
            LET V == gray_viewers[v]
                W == gray_viewers'[v]
            IN  \A l \in V.labels :
                    LET key == get_mask_id(V.name, l)
                        joined == key \notin GroupedIds(V) /\ key \in GroupedIds(W)
                        left == key \in GroupedIds(V) /\ key \notin GroupedIds(W)
                    IN  /\ left => /\ ActiveRegion(W, l) = Recorded(W, l)
                                   /\ (~W.is_inactive[l]) = Recorded(W, l)
                        /\ joined => Recorded(W, l) = ActiveRegion(V, l)
                        /\ ~joined => Recorded(W, l) = Recorded(V, l)]_vars

\* C40, its case: two regions were connected and disconnected again; no
\* group is left, each of the two carries its snapshot and is active
C40_Witness ==
    \E V \in Viewers : \E l, m \in V.labels :
        /\ l # m
        /\ \A x \in {l, m} :
            /\ get_mask_id(V.name, x) \in DOMAIN V.pre_merge_callback_state
            /\ Ungrouped(V, x)
            /\ get_mask_id(V.name, x) \in DOMAIN V.new_mask_dict
            /\ V.new_mask_dict[get_mask_id(V.name, x)].source = "disconnect"
            /\ ActiveRegion(V, x) /\ Recorded(V, x)
        /\ V.connected_groups = <<>>
====
